---- MODULE Spec2Model ----
(***************************************************************************)
(* Window lifecycle and session restoration of the main process:          *)
(* WindowsManager of src/vs/code/electron-main/windows.ts.                 *)
(*                                                                         *)
(* JavaScript values are modelled as follows.  `undefined` (and an absent  *)
(* key) is the string Undef.  An optional record keeps all its fields and  *)
(* carries isNull; an optional array is a sequence plus a ...Kind field    *)
(* telling whether the value is an array, undefined, or a non-array.       *)
(***************************************************************************)
EXTENDS Integers, Sequences, FiniteSets, TLC

VARIABLES
    platform,               \* process.platform: decides isLinux / isMacintosh / isWindows
    store,                  \* storageService item 'windowsState' (the persisted blob)
    windowsState,           \* WindowsManager.windowsState
    lastClosedWindowState,  \* WindowsManager.lastClosedWindowState
    WINDOWS,                \* WindowsManager.WINDOWS (live windows, in creation order)
    focusOrder,             \* ids of the live windows that had focus, most recent last
    quitRequested,          \* lifecycleService.isQuitRequested()
    pending,                \* unload negotiations in flight (lifecycleService.unload promises)
    backups,                \* the backup registry
    mru,                    \* historyService: the recently opened list
    nextId,                 \* id of the next window created
    storeWrites,            \* number of storageService.setItem('windowsState') calls
    migrations,             \* number of migrateLegacyWindowState runs
    thrown,                 \* an exception escaped the last handler
    moves,                  \* number of geometry changes made by the user
    wasRestarted,           \* lifecycleService.wasRestarted
    settleNow,              \* unload of a window that is not ready: its promise is
                            \* settled when returned, and done() runs the callback at once
    vetoes,                 \* the windows that vetoed an unload since the last open()
                            \* call, in the order of their vetoes
    lastOpen,               \* what the last open() call was given and what it did
    lastUnload,             \* the last onBeforeWindowUnload event and what the handler did
    dialogs,                \* the crash and unresponsive message boxes awaiting their callback
    waiters,                \* the onWindowClose listeners of waitForWindowClose
    unlinked                \* the wait marker files deleted by fs.unlink

vars == <<platform, store, windowsState, lastClosedWindowState, WINDOWS, focusOrder,
          quitRequested, pending, backups, mru, nextId, storeWrites, migrations,
          thrown, moves, wasRestarted, settleNow, vetoes, lastOpen, lastUnload, dialogs,
          waiters, unlinked>>

-----------------------------------------------------------------------------
(* Bounds of the model *)

\* windows created in one run of SpecOpen
MaxWindows == 3
\* windows created in one run of Spec
MaxSessionWindows == 2
\* open() calls in one run
MaxOpens == 2
\* geometry changes made by the user in one run
MaxMoves == 1
\* quit requests in one run (all but the last one vetoed)
MaxQuits == 2

-----------------------------------------------------------------------------
(* Values *)

Undef == "undefined"
\* a JSON value that is neither undefined nor a string (a number)
NonString == "<number>"

isLinux == platform = "linux"
isMacintosh == platform = "darwin"
isWindows == platform = "win32"

Platforms == {"linux", "darwin", "win32"}

\* IWorkspaceIdentifier, and its absence
NoWorkspace == [id |-> Undef, configPath |-> Undef]
Ws(i, p) == [id |-> i, configPath |-> p]
HasWorkspace(w) == w.id # Undef

\* ISingleWindowState (uiState): mode and top-left origin
NoUi == [mode |-> Undef, x |-> 0, y |-> 0]
Ui(m, px, py) == [mode |-> m, x |-> px, y |-> py]

\* ILegacyWindowState; isNull marks undefined / null
NoState == [isNull |-> TRUE, workspace |-> NoWorkspace, folderPath |-> Undef,
            workspacePath |-> Undef, backupPath |-> Undef, uiState |-> NoUi]
WState(ws, folder, legacy, backup, ui) ==
    [isNull |-> FALSE, workspace |-> ws, folderPath |-> folder,
     workspacePath |-> legacy, backupPath |-> backup, uiState |-> ui]

\* JavaScript truthiness of a string-valued property
Truthy(s) == s # Undef /\ s # ""
\* typeof v === 'string'
IsString(v) == v # Undef /\ v # NonString

\* ILegacyWindowsState
WindowsStateOf(last, dev, wkind, wins, fkind, folders) ==
    [lastActiveWindow |-> last, lastPluginDevelopmentHostWindow |-> dev,
     openedWindowsKind |-> wkind, openedWindows |-> wins,
     openedFoldersKind |-> fkind, openedFolders |-> folders]

\* the default of the constructor: { openedWindows: [] }
EmptyWindowsState == WindowsStateOf(NoState, NoState, "array", <<>>, Undef, <<>>)
\* storageService.getItem found nothing (no blob at all, unlike the blob {})
NoBlob == WindowsStateOf(NoState, NoState, "no blob", <<>>, "no blob", <<>>)

\* the backup registry and the recently opened list, empty
NoBackups == [workspaces |-> <<>>, folders |-> <<>>, empty |-> <<>>]
NoMru == [workspaces |-> <<>>, files |-> <<>>]

-----------------------------------------------------------------------------
(* Sequence helpers (vs/base/common/arrays) *)

SeqMap(s, f(_)) == [i \in 1..Len(s) |-> f(s[i])]

SeqSome(s, p(_)) == \E i \in 1..Len(s) : p(s[i])

Range(s) == {s[i] : i \in 1..Len(s)}

\* the elements of s at the indices in I, in order
RECURSIVE PickIdx(_, _, _)
PickIdx(s, I, i) ==
    IF i > Len(s) THEN <<>>
    ELSE (IF i \in I THEN <<s[i]>> ELSE <<>>) \o PickIdx(s, I, i + 1)

\* arrays.distinct(array, keyFn): the first element of every key, in order
distinct(s, key(_)) ==
    PickIdx(s, {i \in 1..Len(s) : \A j \in 1..(i - 1) : key(s[j]) # key(s[i])}, 1)

-----------------------------------------------------------------------------
(* Startup state migration *)

\* windows.ts 151-157: openedFolders -> openedWindows
migrateOpenedFolders(state) ==
    IF state.openedFoldersKind = "array" /\ Len(state.openedFolders) > 0
    THEN [state EXCEPT !.openedWindows = state.openedFolders,
                       !.openedWindowsKind = "array",
                       !.openedFolders = <<>>,
                       !.openedFoldersKind = Undef]
    ELSE IF state.openedWindowsKind = Undef
    THEN [state EXCEPT !.openedWindows = <<>>, !.openedWindowsKind = "array"]
    ELSE state

\* windows.ts 165-168: workspacePath -> folderPath on one window state
migrateWorkspacePath(s) ==
    IF ~s.isNull /\ IsString(s.workspacePath)
    THEN [s EXCEPT !.folderPath = s.workspacePath, !.workspacePath = Undef]
    ELSE s

\* states.push(...state.openedWindows) throws a TypeError on a non-array value
migrateThrows(state) == migrateOpenedFolders(state).openedWindowsKind # "array"

\* a migration that resets openedWindows whenever there is no legacy container
migrateLegacyWindowStateResetting(state) ==
    LET s1 == IF state.openedFoldersKind = "array" /\ Len(state.openedFolders) > 0
              THEN migrateOpenedFolders(state)
              ELSE [state EXCEPT !.openedWindows = <<>>, !.openedWindowsKind = "array"]
    IN  [s1 EXCEPT !.lastActiveWindow = migrateWorkspacePath(@),
                   !.lastPluginDevelopmentHostWindow = migrateWorkspacePath(@),
                   !.openedWindows = SeqMap(@, migrateWorkspacePath)]

\* WindowsManager.migrateLegacyWindowState: the state it leaves behind
migrateLegacyWindowState(state) ==
    LET s1 == migrateOpenedFolders(state)
    IN  IF migrateThrows(state) THEN s1
        ELSE [s1 EXCEPT !.lastActiveWindow = migrateWorkspacePath(@),
                        !.lastPluginDevelopmentHostWindow = migrateWorkspacePath(@),
                        !.openedWindows = SeqMap(@, migrateWorkspacePath)]

\* constructor, line 142: getItem(...) || { openedWindows: [] }
loadWindowsState(blob) == IF blob = NoBlob THEN EmptyWindowsState ELSE blob

-----------------------------------------------------------------------------
(* The disk and the workspace resolver, as parsePath consults them *)

Folders == {"/a", "/A", "/b"}
PlainFiles == {"/a/f", "/x", "/y"}
\* workspace configuration files; the id is stored in the file, so a copy keeps it
WorkspaceFiles == {"/w1.ws", "/w1-moved.ws", "/u.ws"}

\* path.normalize
normalize(p) == IF p = "/b/." THEN "/b" ELSE p

\* fs.statSync: "folder", "file", or "missing" (it throws)
statKind(p) ==
    IF p \in Folders THEN "folder"
    ELSE IF p \in PlainFiles \cup WorkspaceFiles THEN "file"
    ELSE "missing"

\* workspacesService.resolveWorkspaceSync(path): the id, or Undef for no workspace
resolveWorkspaceSync(p) ==
    IF p \in {"/w1.ws", "/w1-moved.ws"} THEN "w1"
    ELSE IF p = "/u.ws" THEN "u"
    ELSE Undef

\* workspacesService.isUntitledWorkspace
isUntitledWorkspace(ws) == ws.configPath = "/u.ws"

\* String.prototype.toLowerCase on the paths of the model
toLowerCase(p) == IF p = "/A" THEN "/a" ELSE p

\* paths.isEqual(pathA, pathB, ignoreCase)
isEqual(pathA, pathB, ignoreCase) ==
    IF ~ignoreCase \/ pathA = pathB THEN pathA = pathB
    ELSE IF ~Truthy(pathA) \/ ~Truthy(pathB) THEN FALSE
    ELSE toLowerCase(pathA) = toLowerCase(pathB)

-----------------------------------------------------------------------------
(* Resolving the targets of an open() call *)

\* IPath: a file to open, create or diff
FileOf(p, create) == [filePath |-> p, createFilePath |-> create]

\* IWindowToOpen
Target(ws, folder, file, create, backup) ==
    [workspace |-> ws, folderPath |-> folder, filePath |-> file,
     createFilePath |-> create, backupPath |-> backup]

\* Object.create(null): the empty window
EmptyTarget == Target(NoWorkspace, Undef, Undef, FALSE, Undef)

RECURSIVE Flatten(_)
Flatten(ss) == IF ss = <<>> THEN <<>> ELSE Head(ss) \o Flatten(Tail(ss))

\* WindowsManager.parsePath: <<>> for null, else the one target
parsePath(anyPath, ignoreFileNotFound) ==
    IF ~Truthy(anyPath) THEN <<>>
    ELSE LET candidate == normalize(anyPath)
         IN  CASE statKind(candidate) = "file" ->
                    IF resolveWorkspaceSync(candidate) # Undef
                    THEN <<Target(Ws(resolveWorkspaceSync(candidate), candidate),
                                  Undef, Undef, FALSE, Undef)>>
                    ELSE <<Target(NoWorkspace, Undef, candidate, FALSE, Undef)>>
               [] statKind(candidate) = "folder" ->
                    <<Target(NoWorkspace, candidate, Undef, FALSE, Undef)>>
               [] OTHER ->
                    IF ignoreFileNotFound
                    THEN <<Target(NoWorkspace, Undef, candidate, TRUE, Undef)>>
                    ELSE <<>>

\* parsePath line 854: the candidates removed from the recently opened list
notFound(paths) ==
    {normalize(q) : q \in {q \in paths : Truthy(q) /\ statKind(normalize(q)) = "missing"}}

\* WindowsManager.doExtractPathsFromAPI
doExtractPathsFromAPI(paths) ==
    Flatten(SeqMap(paths, LAMBDA q : parsePath(q, FALSE)))

\* WindowsManager.doExtractPathsFromCLI
doExtractPathsFromCLI(cli) ==
    LET pathsToOpen == Flatten(SeqMap(cli.args, LAMBDA q : parsePath(q, TRUE)))
    IN  IF Len(pathsToOpen) > 0 THEN pathsToOpen ELSE <<EmptyTarget>>

\* WindowsManager.getRestoreWindowsSetting
getRestoreWindowsSetting(restarted, windowConfig) ==
    IF restarted THEN "all"
    ELSE LET r1 == IF Truthy(windowConfig.restoreWindows)
                   THEN windowConfig.restoreWindows ELSE "one"
             r2 == IF r1 = "one" /\ Truthy(windowConfig.reopenFolders)
                   THEN windowConfig.reopenFolders ELSE r1
         IN  IF r2 \in {"all", "folders", "one", "none"} THEN r2 ELSE "one"

\* a case 'one' that hands out what the last active window stored, unvalidated
restoreOneUnvalidated(lastActiveWindow) ==
    IF lastActiveWindow.isNull THEN <<>>
    ELSE <<Target(lastActiveWindow.workspace, lastActiveWindow.folderPath, Undef, FALSE,
                  IF HasWorkspace(lastActiveWindow.workspace)
                     \/ Truthy(lastActiveWindow.folderPath)
                  THEN Undef ELSE lastActiveWindow.backupPath)>>

\* doGetWindowsFromLastSession, case 'one' (lines 706-731): <<>> when it breaks
restoreOne(lastActiveWindow) ==
    IF lastActiveWindow.isNull THEN <<>>
    ELSE IF HasWorkspace(lastActiveWindow.workspace)
    THEN SelectSeq(parsePath(lastActiveWindow.workspace.configPath, FALSE),
                   LAMBDA v : HasWorkspace(v.workspace))
    ELSE IF Truthy(lastActiveWindow.folderPath)
    THEN SelectSeq(parsePath(lastActiveWindow.folderPath, FALSE),
                   LAMBDA v : Truthy(v.folderPath))
    ELSE IF Truthy(lastActiveWindow.backupPath)
    THEN <<Target(NoWorkspace, Undef, Undef, FALSE, lastActiveWindow.backupPath)>>
    ELSE <<>>

\* cases 'all' and 'folders' that look at the opened windows alone
restoreAllOpenedOnly(restoreWindows, state) ==
    LET opened == SelectSeq(state.openedWindows, LAMBDA w : ~w.isNull)
    IN  SelectSeq(Flatten(SeqMap(SelectSeq(opened, LAMBDA w : HasWorkspace(w.workspace)),
                                 LAMBDA w : parsePath(w.workspace.configPath, FALSE))),
                  LAMBDA v : HasWorkspace(v.workspace))
        \o SelectSeq(Flatten(SeqMap(SelectSeq(opened, LAMBDA w : Truthy(w.folderPath)),
                                    LAMBDA w : parsePath(w.folderPath, FALSE))),
                     LAMBDA v : Truthy(v.folderPath))
        \o (IF restoreWindows = "all"
            THEN SeqMap(SelectSeq(opened, LAMBDA w : ~HasWorkspace(w.workspace)
                                                     /\ ~Truthy(w.folderPath)
                                                     /\ Truthy(w.backupPath)),
                        LAMBDA w : Target(NoWorkspace, Undef, Undef, FALSE, w.backupPath))
            ELSE <<>>)

\* doGetWindowsFromLastSession, cases 'all' and 'folders' (lines 735-768)
restoreAll(restoreWindows, state) ==
    LET lastActiveWindow == state.lastActiveWindow
        opened == SelectSeq(state.openedWindows, LAMBDA w : ~w.isNull)
        workspaceCandidates ==
            SeqMap(SelectSeq(opened, LAMBDA w : HasWorkspace(w.workspace)),
                   LAMBDA w : w.workspace)
            \o (IF ~lastActiveWindow.isNull /\ HasWorkspace(lastActiveWindow.workspace)
                THEN <<lastActiveWindow.workspace>> ELSE <<>>)
        folderCandidates ==
            SeqMap(SelectSeq(opened, LAMBDA w : Truthy(w.folderPath)),
                   LAMBDA w : w.folderPath)
            \o (IF ~lastActiveWindow.isNull /\ Truthy(lastActiveWindow.folderPath)
                THEN <<lastActiveWindow.folderPath>> ELSE <<>>)
        lastOpenedEmpty ==
            SeqMap(SelectSeq(opened, LAMBDA w : ~HasWorkspace(w.workspace)
                                                /\ ~Truthy(w.folderPath)
                                                /\ Truthy(w.backupPath)),
                   LAMBDA w : w.backupPath)
            \o (IF ~lastActiveWindow.isNull /\ ~HasWorkspace(lastActiveWindow.workspace)
                   /\ ~Truthy(lastActiveWindow.folderPath)
                   /\ Truthy(lastActiveWindow.backupPath)
                THEN <<lastActiveWindow.backupPath>> ELSE <<>>)
    IN  SelectSeq(Flatten(SeqMap(workspaceCandidates,
                                 LAMBDA c : parsePath(c.configPath, FALSE))),
                  LAMBDA v : HasWorkspace(v.workspace))
        \o SelectSeq(Flatten(SeqMap(folderCandidates, LAMBDA c : parsePath(c, FALSE))),
                     LAMBDA v : Truthy(v.folderPath))
        \o (IF restoreWindows = "all"
            THEN SeqMap(lastOpenedEmpty,
                        LAMBDA b : Target(NoWorkspace, Undef, Undef, FALSE, b))
            ELSE <<>>)

\* a restore without the case 'none': it falls into the default of the switch
doGetWindowsFromLastSessionNoNone(restoreWindows, state) ==
    LET found == IF restoreWindows \in {"none", "one"}
                 THEN restoreOne(state.lastActiveWindow)
                 ELSE restoreAll(restoreWindows, state)
    IN  IF Len(found) > 0 THEN found ELSE <<EmptyTarget>>

\* lines 740, 747, 755: the filters read w.workspace of every entry, and throw a
\* TypeError on a null entry
restoreThrows(restoreWindows, state) ==
    /\ restoreWindows \in {"all", "folders"}
    /\ \E k \in 1..Len(state.openedWindows) : state.openedWindows[k].isNull

\* WindowsManager.doGetWindowsFromLastSession
doGetWindowsFromLastSession(restoreWindows, state) ==
    LET found == CASE restoreWindows = "none" -> <<>>
                   [] restoreWindows = "one" -> restoreOne(state.lastActiveWindow)
                   [] OTHER -> restoreAll(restoreWindows, state)
    IN  IF Len(found) > 0 THEN found ELSE <<EmptyTarget>>

\* the paths doGetWindowsFromLastSession hands to parsePath
sessionPathsParsed(restoreWindows, state) ==
    LET last == state.lastActiveWindow
        recs == IF restoreWindows = "none" THEN {}
                ELSE IF restoreWindows = "one" THEN {last}
                ELSE {last} \cup Range(state.openedWindows)
        live == {r \in recs : ~r.isNull}
    IN  IF restoreWindows = "one"
        THEN {IF HasWorkspace(r.workspace) THEN r.workspace.configPath ELSE r.folderPath :
                r \in live}
        ELSE {r.workspace.configPath : r \in live} \cup {r.folderPath : r \in live}

\* WindowsManager.getWindowsToOpen
getWindowsToOpen(openConfig, restoreWindows, state) ==
    IF Len(openConfig.pathsToOpen) > 0 THEN doExtractPathsFromAPI(openConfig.pathsToOpen)
    ELSE IF openConfig.forceEmpty THEN <<EmptyTarget>>
    ELSE IF Len(openConfig.cli.args) > 0 THEN doExtractPathsFromCLI(openConfig.cli)
    ELSE doGetWindowsFromLastSession(restoreWindows, state)

\* the paths getWindowsToOpen hands to parsePath
pathsParsed(openConfig, restoreWindows, state) ==
    IF Len(openConfig.pathsToOpen) > 0 THEN Range(openConfig.pathsToOpen)
    ELSE IF openConfig.forceEmpty THEN {}
    ELSE IF Len(openConfig.cli.args) > 0 THEN Range(openConfig.cli.args)
    ELSE sessionPathsParsed(restoreWindows, state)

-----------------------------------------------------------------------------
(* Live windows (CodeWindow) *)

\* IWindowConfiguration, as far as the manager fills it in
Configuration(ws, folder, backup, toOpen, toCreate, toDiff, devPath, testsPath, initial) ==
    [workspace |-> ws, folderPath |-> folder, backupPath |-> backup,
     filesToOpen |-> toOpen, filesToCreate |-> toCreate, filesToDiff |-> toDiff,
     extensionDevelopmentPath |-> devPath, extensionTestsPath |-> testsPath,
     isInitialStartup |-> initial]

\* the configuration of a window that has loaded nothing yet
NoConfig == Configuration(NoWorkspace, Undef, Undef, <<>>, <<>>, <<>>, Undef, Undef, FALSE)

\* a CodeWindow: its creation options, its geometry, its loaded configuration, and
\* the reason (CLOSE or QUIT) of the unload that lets it close
CodeWindow(i, devPath, testHost, ui) ==
    [id |-> i, extensionDevelopmentPath |-> devPath, isExtensionTestHost |-> testHost,
     uiState |-> ui, loaded |-> FALSE, config |-> NoConfig, closing |-> Undef]

\* no window (null / undefined)
NoWindow == CodeWindow(0, Undef, FALSE, NoUi)

openedWorkspace(w) == w.config.workspace
openedFolderPath(w) == w.config.folderPath
backupPathOf(w) == w.config.backupPath
isExtensionDevelopmentHost(w) == Truthy(w.extensionDevelopmentPath)
\* CodeWindow.serializeWindowState
serializeWindowState(w) == w.uiState
\* CodeWindow.getBounds
getBounds(w) == [x |-> w.uiState.x, y |-> w.uiState.y]

First(s, none) == IF Len(s) > 0 THEN s[1] ELSE none

\* windowsFinder.getLastActiveWindow: the window focused last; without any focus
\* the first one
getLastActiveWindowOf(windows, order) ==
    LET live == SelectSeq(order, LAMBDA i : \E k \in 1..Len(windows) : windows[k].id = i)
    IN  IF Len(windows) = 0 THEN NoWindow
        ELSE IF Len(live) = 0 THEN windows[1]
        ELSE First(SelectSeq(windows, LAMBDA w : w.id = live[Len(live)]), NoWindow)

\* WindowsManager.getLastActiveWindow
getLastActiveWindow == getLastActiveWindowOf(WINDOWS, focusOrder)

\* WindowsManager.getWindowCount
getWindowCount == Len(WINDOWS)

\* WindowsManager.getWindowById
getWindowById(i) == First(SelectSeq(WINDOWS, LAMBDA w : w.id = i), NoWindow)

\* windowsFinder.findWindowOnWorkspace, for a workspace identifier
findWindowOnWorkspace(windows, workspace) ==
    First(SelectSeq(windows, LAMBDA w : HasWorkspace(openedWorkspace(w))
                                        /\ openedWorkspace(w).id = workspace.id),
          NoWindow)

\* windowsFinder.findWindowOnWorkspace, for a single folder
findWindowOnFolder(windows, folder) ==
    First(SelectSeq(windows, LAMBDA w : Truthy(openedFolderPath(w))
                                        /\ isEqual(openedFolderPath(w), folder, ~isLinux)),
          NoWindow)

\* CodeWindow.focus, and the focus event of the native window
focused(order, i) == SelectSeq(order, LAMBDA j : j # i) \o <<i>>

-----------------------------------------------------------------------------
(* Close and quit bookkeeping *)

\* WindowsManager.toWindowState
toWindowState(win) ==
    WState(openedWorkspace(win), openedFolderPath(win), Undef, backupPathOf(win),
           serializeWindowState(win))

\* a quit handler that asks the live windows only
quitLastActiveWindowLive ==
    LET active == getLastActiveWindow
        other == First(SelectSeq(WINDOWS, LAMBDA w : ~isExtensionDevelopmentHost(w)),
                       NoWindow)
        activeWindow == IF active = NoWindow \/ isExtensionDevelopmentHost(active)
                        THEN other ELSE active
    IN  IF activeWindow # NoWindow THEN toWindowState(activeWindow) ELSE NoState

\* a quit handler that takes the last active window, extension host or not
quitLastActiveWindowAnyHost ==
    IF ~lastClosedWindowState.isNull THEN lastClosedWindowState
    ELSE IF getLastActiveWindow # NoWindow THEN toWindowState(getLastActiveWindow)
    ELSE NoState

\* onBeforeQuit, step 1: the last active window to persist
quitLastActiveWindow ==
    IF ~lastClosedWindowState.isNull THEN lastClosedWindowState
    ELSE LET active == getLastActiveWindow
             other == First(SelectSeq(WINDOWS, LAMBDA w : ~isExtensionDevelopmentHost(w)),
                            NoWindow)
             activeWindow == IF active = NoWindow \/ isExtensionDevelopmentHost(active)
                             THEN other ELSE active
         IN  IF activeWindow # NoWindow THEN toWindowState(activeWindow) ELSE NoState

\* onBeforeQuit, step 2: the extension host window to persist
quitExtensionHostWindow ==
    LET extensionHostWindow ==
            First(SelectSeq(WINDOWS, LAMBDA w : isExtensionDevelopmentHost(w)
                                                /\ ~w.isExtensionTestHost),
                  NoWindow)
    IN  IF extensionHostWindow # NoWindow THEN toWindowState(extensionHostWindow)
        ELSE windowsState.lastPluginDevelopmentHostWindow

\* a quit handler that persists the extension hosts as well
quitOpenedWindowsWithHosts ==
    IF getWindowCount > 1 THEN SeqMap(WINDOWS, toWindowState) ELSE <<>>

\* onBeforeQuit, step 3: all windows but extension hosts, for more than one window
quitOpenedWindows ==
    IF getWindowCount > 1
    THEN SeqMap(SelectSeq(WINDOWS, LAMBDA w : ~isExtensionDevelopmentHost(w)), toWindowState)
    ELSE <<>>

\* WindowsManager.onBeforeQuit: currentWindowsState, as handed to setItem
currentWindowsState ==
    WindowsStateOf(quitLastActiveWindow, quitExtensionHostWindow,
                   "array", quitOpenedWindows, "array", <<>>)

\* a close handler that stops at the first matching entry
updateOpenedWindowsFirst(opened, win, state) ==
    LET matches(o) == \/ /\ HasWorkspace(openedWorkspace(win))
                         /\ HasWorkspace(o.workspace)
                         /\ o.workspace.id = openedWorkspace(win).id
                      \/ /\ Truthy(openedFolderPath(win))
                         /\ isEqual(o.folderPath, openedFolderPath(win), ~isLinux)
    IN  [k \in 1..Len(opened) |->
           IF matches(opened[k]) /\ \A j \in 1..(k - 1) : ~matches(opened[j])
           THEN [opened[k] EXCEPT !.uiState = state.uiState] ELSE opened[k]]

\* a close handler that stores the snapshot of a window that has no entry
updateOpenedWindowsAdding(opened, win, state) ==
    LET matches(o) == \/ /\ HasWorkspace(openedWorkspace(win))
                         /\ HasWorkspace(o.workspace)
                         /\ o.workspace.id = openedWorkspace(win).id
                      \/ /\ Truthy(openedFolderPath(win))
                         /\ isEqual(o.folderPath, openedFolderPath(win), ~isLinux)
    IN  IF \E k \in 1..Len(opened) : matches(opened[k])
        THEN [k \in 1..Len(opened) |->
                IF matches(opened[k]) THEN [opened[k] EXCEPT !.uiState = state.uiState]
                ELSE opened[k]]
        ELSE Append(opened, state)

\* onBeforeWindowClose lines 273-280: the stored UI state of the matching entries
updateOpenedWindows(opened, win, state) ==
    SeqMap(opened,
           LAMBDA o :
             LET sameWorkspace == /\ HasWorkspace(openedWorkspace(win))
                                  /\ HasWorkspace(o.workspace)
                                  /\ o.workspace.id = openedWorkspace(win).id
                 sameFolder == /\ Truthy(openedFolderPath(win))
                               /\ isEqual(o.folderPath, openedFolderPath(win), ~isLinux)
             IN  IF sameWorkspace \/ sameFolder
                 THEN [o EXCEPT !.uiState = state.uiState] ELSE o)

\* a close handler for which a test run is an extension development session
closeWindowsStateOfTestHosts(ws, win) ==
    LET state == toWindowState(win)
    IN  IF isExtensionDevelopmentHost(win)
        THEN [ws EXCEPT !.lastPluginDevelopmentHostWindow = state]
        ELSE IF HasWorkspace(openedWorkspace(win)) \/ Truthy(openedFolderPath(win))
        THEN [ws EXCEPT !.openedWindows = updateOpenedWindows(@, win, state)]
        ELSE ws

\* onBeforeWindowClose lines 265-281: windowsState after the close of win
closeWindowsState(ws, win) ==
    LET state == toWindowState(win)
    IN  IF isExtensionDevelopmentHost(win) /\ ~win.isExtensionTestHost
        THEN [ws EXCEPT !.lastPluginDevelopmentHostWindow = state]
        ELSE IF /\ ~isExtensionDevelopmentHost(win)
                /\ (HasWorkspace(openedWorkspace(win)) \/ Truthy(openedFolderPath(win)))
        THEN [ws EXCEPT !.openedWindows = updateOpenedWindows(@, win, state)]
        ELSE ws

\* a close handler that lacks the isQuitRequested guard
onBeforeWindowCloseUnguarded(win) ==
    /\ windowsState' = closeWindowsState(windowsState, win)
    /\ lastClosedWindowState' =
         IF getWindowCount = 1 THEN toWindowState(win) ELSE lastClosedWindowState

\* WindowsManager.onBeforeWindowClose
onBeforeWindowClose(win) ==
    IF quitRequested
    THEN UNCHANGED <<windowsState, lastClosedWindowState>>
    ELSE /\ windowsState' = closeWindowsState(windowsState, win)
         /\ lastClosedWindowState' =
              IF getWindowCount = 1 THEN toWindowState(win) ELSE lastClosedWindowState

-----------------------------------------------------------------------------
(* Geometry of a new window *)

\* the bounds of the one display, and defaultWindowState()
DisplayWidth == 1600
DisplayHeight == 1200
DefaultWidth == 1024
DefaultHeight == 768
\* the step of ensureNoOverlap
Nudge == 30

\* an ensureNoOverlap that looks at x and moves x only
RECURSIVE ensureNoOverlapX(_, _)
ensureNoOverlapX(state, windows) ==
    IF Len(windows) = 0 THEN state
    ELSE IF \E k \in 1..Len(windows) : getBounds(windows[k]).x = state.x
    THEN ensureNoOverlapX([state EXCEPT !.x = @ + Nudge], windows)
    ELSE state

\* an ensureNoOverlap that moves the state before it looks at the windows
RECURSIVE ensureNoOverlapMovingFirst(_, _)
ensureNoOverlapMovingFirst(state, windows) ==
    LET moved == [state EXCEPT !.x = @ + Nudge, !.y = @ + Nudge]
    IN  IF \E k \in 1..Len(windows) :
             getBounds(windows[k]).x = moved.x \/ getBounds(windows[k]).y = moved.y
        THEN ensureNoOverlapMovingFirst(moved, windows)
        ELSE moved

\* WindowsManager.ensureNoOverlap
RECURSIVE ensureNoOverlap(_, _)
ensureNoOverlap(state, windows) ==
    IF Len(windows) = 0 THEN state
    ELSE IF \E k \in 1..Len(windows) :
              getBounds(windows[k]).x = state.x \/ getBounds(windows[k]).y = state.y
    THEN ensureNoOverlap([state EXCEPT !.x = @ + Nudge, !.y = @ + Nudge], windows)
    ELSE state

\* getNewWindowState lines 1081-1146: a state that comes from no stored settings
defaultNewWindowState(windowConfig, windows, lastActive) ==
    LET centered == Ui("normal", 0 + (DisplayWidth \div 2) - (DefaultWidth \div 2),
                       0 + (DisplayHeight \div 2) - (DefaultHeight \div 2))
        dims == windowConfig.newWindowDimensions
    IN  IF dims = "maximized" THEN [centered EXCEPT !.mode = "maximized"]
        ELSE IF dims = "fullscreen" THEN [centered EXCEPT !.mode = "fullscreen"]
        ELSE IF dims = "inherit" /\ lastActive # NoWindow
        THEN IF serializeWindowState(lastActive).mode = "fullscreen"
             THEN [centered EXCEPT !.mode = "fullscreen"]
             ELSE serializeWindowState(lastActive)
        ELSE ensureNoOverlap(centered, windows)

\* WindowsManager.getNewWindowState: the state, and the stored record it is taken
\* from (origin; "default" for a computed one, hasDefaultState)
getNewWindowState(configuration, windowConfig, windows, lastActive, ws, lastClosed) ==
    LET forWorkspace == { k \in 1..Len(ws.openedWindows) :
                            /\ HasWorkspace(ws.openedWindows[k].workspace)
                            /\ ws.openedWindows[k].workspace.id = configuration.workspace.id }
        forFolder == { k \in 1..Len(ws.openedWindows) :
                         isEqual(ws.openedWindows[k].folderPath, configuration.folderPath,
                                 ~isLinux) }
        forEmpty == { k \in 1..Len(ws.openedWindows) :
                        ws.openedWindows[k].backupPath = configuration.backupPath }
        min(S) == CHOOSE k \in S : \A j \in S : k <= j
        stored(k) == [origin |-> "openedWindows", index |-> k,
                      state |-> ws.openedWindows[k].uiState]
        lastActiveState == IF ~lastClosed.isNull THEN lastClosed ELSE ws.lastActiveWindow
        fallback == [origin |-> "default", index |-> 0,
                     state |-> defaultNewWindowState(windowConfig, windows, lastActive)]
    IN  IF Truthy(configuration.extensionTestsPath) THEN fallback
        ELSE IF /\ Truthy(configuration.extensionDevelopmentPath)
                /\ ~ws.lastPluginDevelopmentHostWindow.isNull
        THEN [origin |-> "lastPluginDevelopmentHostWindow", index |-> 0,
              state |-> ws.lastPluginDevelopmentHostWindow.uiState]
        ELSE IF HasWorkspace(configuration.workspace) /\ forWorkspace # {}
        THEN stored(min(forWorkspace))
        ELSE IF Truthy(configuration.folderPath) /\ forFolder # {}
        THEN stored(min(forFolder))
        ELSE IF /\ ~Truthy(configuration.folderPath) /\ Truthy(configuration.backupPath)
                /\ forEmpty # {}
        THEN stored(min(forEmpty))
        ELSE IF lastActive = NoWindow /\ ~lastActiveState.isNull
        THEN [origin |-> IF ~lastClosed.isNull THEN "lastClosedWindowState"
                         ELSE "lastActiveWindow",
              index |-> 0, state |-> lastActiveState.uiState]
        ELSE fallback

\* a fullscreen rule that asks the same of a stored state and of a default state
allowFullscreenBySetting(hasDefaultState, windowConfig, restarted) ==
    \/ windowConfig.newWindowDimensions \in {"fullscreen", "inherit"}
    \/ restarted \/ windowConfig.restoreFullscreen

\* openInBrowserWindow lines 962-971
allowFullscreen(hasDefaultState, windowConfig, restarted) ==
    IF hasDefaultState THEN windowConfig.newWindowDimensions \in {"fullscreen", "inherit"}
    ELSE restarted \/ windowConfig.restoreFullscreen

-----------------------------------------------------------------------------
(* The backup registry *)

\* path.join(environmentService.backupHome, name) and path.basename of it
BackupFolderNames == <<"e1", "e2", "e3", "e4", "e5", "old1">>
BackupFolderPaths == <<"/bk/e1", "/bk/e2", "/bk/e3", "/bk/e4", "/bk/e5", "/bk/old1">>

joinBackupHome(name) ==
    LET k == CHOOSE k \in 1..Len(BackupFolderNames) : BackupFolderNames[k] = name
    IN  BackupFolderPaths[k]

basename(path) ==
    IF \E k \in 1..Len(BackupFolderPaths) : BackupFolderPaths[k] = path
    THEN BackupFolderNames[CHOOSE k \in 1..Len(BackupFolderPaths) : BackupFolderPaths[k] = path]
    ELSE path

\* backupService.registerWorkspaceBackupSync: its result
workspaceBackupPath(ws) == IF ws.id = "w1" THEN "/bk/w1" ELSE "/bk/u"

\* backupService.registerFolderBackupSync: its result
folderBackupPath(folder) ==
    CASE folder = "/a" -> "/bk/a"
      [] folder = "/A" -> IF isLinux THEN "/bk/A" ELSE "/bk/a"
      [] OTHER -> "/bk/b"

\* backupService.registerEmptyWindowBackupSync(hint): the folder it registers, a
\* fresh one without hint
emptyBackupFolder(registry, hint) ==
    IF Truthy(hint) THEN hint
    ELSE BackupFolderNames[1 + Cardinality({n \in Range(registry.empty) : n # "old1"})]

append1(s, e) == IF e \in Range(s) THEN s ELSE Append(s, e)

\* openInBrowserWindow lines 1020-1029: the registry and the configuration after
\* the window has been registered for backups
registerBackup(registry, configuration, hint) ==
    IF Truthy(configuration.extensionDevelopmentPath)
    THEN [registry |-> registry, configuration |-> configuration]
    ELSE IF HasWorkspace(configuration.workspace)
    THEN [registry |-> [registry EXCEPT !.workspaces = append1(@, configuration.workspace)],
          configuration |-> [configuration EXCEPT
                               !.backupPath = workspaceBackupPath(configuration.workspace)]]
    ELSE IF Truthy(configuration.folderPath)
    THEN [registry |-> [registry EXCEPT !.folders = append1(@, configuration.folderPath)],
          configuration |-> [configuration EXCEPT
                               !.backupPath = folderBackupPath(configuration.folderPath)]]
    ELSE [registry |-> [registry EXCEPT !.empty = append1(@, emptyBackupFolder(registry, hint))],
          configuration |-> [configuration EXCEPT
                               !.backupPath = joinBackupHome(emptyBackupFolder(registry, hint))]]

-----------------------------------------------------------------------------
(* openInBrowserWindow *)

\* IOpenBrowserWindowOptions
BrowserWindowOptions(ws, folder, files, forceNewWindow, windowToUse, emptyWindowBackupFolder) ==
    [workspace |-> ws, folderPath |-> folder, files |-> files,
     forceNewWindow |-> forceNewWindow, windowToUse |-> windowToUse,
     emptyWindowBackupFolder |-> emptyWindowBackupFolder]

NoFiles == [toOpen |-> <<>>, toCreate |-> <<>>, toDiff |-> <<>>]

\* state.mode = WindowMode.Normal, on the stored record the state was taken from
downgradeStored(st, found) ==
    CASE found.origin = "openedWindows" ->
           [st EXCEPT !.wstate.openedWindows[found.index].uiState.mode = "normal"]
      [] found.origin = "lastPluginDevelopmentHostWindow" ->
           [st EXCEPT !.wstate.lastPluginDevelopmentHostWindow.uiState.mode = "normal"]
      [] found.origin = "lastActiveWindow" ->
           [st EXCEPT !.wstate.lastActiveWindow.uiState.mode = "normal"]
      [] found.origin = "lastClosedWindowState" ->
           [st EXCEPT !.lastClosed.uiState.mode = "normal"]
      [] OTHER -> st

\* an unload negotiation in flight, with what its callback will load
UnloadRequest(win, reason, configuration, hint) ==
    [win |-> win, reason |-> reason, configuration |-> configuration,
     emptyWindowBackupFolder |-> hint]

\* what one placement step handed to one window
Delivery(win, how, created, settled, configuration) ==
    [win |-> win, how |-> how, created |-> created, settled |-> settled,
     hasDefaultState |-> FALSE, step |-> "",
     workspace |-> configuration.workspace, folderPath |-> configuration.folderPath,
     filesToOpen |-> configuration.filesToOpen,
     filesToCreate |-> configuration.filesToCreate,
     filesToDiff |-> configuration.filesToDiff]

\* an openInBrowserWindow that reuses a window in spite of forceNewWindow
openInBrowserWindowReusing(st, options, ctx) ==
    LET target == IF options.windowToUse # 0 THEN options.windowToUse
                  ELSE getLastActiveWindowOf(st.windows, st.order).id
        configuration ==
            Configuration(options.workspace, options.folderPath, Undef,
                          options.files.toOpen, options.files.toCreate, options.files.toDiff,
                          ctx.openConfig.cli.extensionDevelopmentPath,
                          ctx.openConfig.cli.extensionTestsPath, ctx.openConfig.initialStartup)
    IN  IF target = 0
        THEN [st EXCEPT !.windows = Append(@, CodeWindow(st.next, Undef, FALSE, NoUi)),
                        !.order = focused(@, st.next),
                        !.next = @ + 1, !.ret = st.next,
                        !.pend = @ \cup {UnloadRequest(st.next, "LOAD", configuration, Undef)},
                        !.deliveries = Append(@, Delivery(st.next, "load", TRUE, FALSE,
                                                          configuration))]
        ELSE [st EXCEPT !.order = focused(@, target), !.ret = target,
                        !.pend = @ \cup {UnloadRequest(target, "LOAD", configuration, Undef)},
                        !.deliveries = Append(@, Delivery(target, "load", FALSE, FALSE,
                                                          configuration))]

\* an openInBrowserWindow whose new window shows its target before it has loaded
openInBrowserWindowLoadingAtOnce(st, options, ctx) ==
    LET cli == ctx.openConfig.cli
        configuration0 ==
            Configuration(options.workspace, options.folderPath,
                          IF Truthy(options.emptyWindowBackupFolder)
                          THEN joinBackupHome(options.emptyWindowBackupFolder) ELSE Undef,
                          options.files.toOpen, options.files.toCreate, options.files.toDiff,
                          cli.extensionDevelopmentPath, cli.extensionTestsPath,
                          ctx.openConfig.initialStartup)
        lastActive == getLastActiveWindowOf(st.windows, st.order)
        reuse == IF options.forceNewWindow THEN 0
                 ELSE IF options.windowToUse # 0 THEN options.windowToUse
                 ELSE lastActive.id
    IN  IF reuse = 0
        THEN \* new window
             LET found == getNewWindowState(configuration0, ctx.windowConfig, st.windows,
                                            lastActive, st.wstate, st.lastClosed)
                 allow == allowFullscreen(found.origin = "default", ctx.windowConfig,
                                          ctx.wasRestarted)
                 downgrade == found.state.mode = "fullscreen" /\ ~allow
                 state == IF downgrade THEN [found.state EXCEPT !.mode = "normal"]
                          ELSE found.state
                 st1 == IF downgrade THEN downgradeStored(st, found) ELSE st
                 codeWindow == CodeWindow(st.next, configuration0.extensionDevelopmentPath,
                                          Truthy(configuration0.extensionTestsPath), state)
                 reg == registerBackup(st.backups, configuration0,
                                       options.emptyWindowBackupFolder)
             IN  IF TRUE
                 THEN \* the promise of a window that is not ready is settled already:
                      \* its callback runs before openInBrowserWindow returns
                      [st1 EXCEPT !.windows = Append(@, [codeWindow EXCEPT
                                                           !.loaded = TRUE,
                                                           !.config = reg.configuration]),
                                  !.order = focused(@, st.next),
                                  !.next = @ + 1,
                                  !.ret = st.next,
                                  !.backups = reg.registry,
                                  !.deliveries = Append(@, [Delivery(st.next, "load", TRUE, TRUE,
                                                                     configuration0)
                                                            EXCEPT !.hasDefaultState =
                                                                      found.origin = "default"])]
                 ELSE [st1 EXCEPT !.windows = Append(@, codeWindow),
                                  !.order = focused(@, st.next),
                                  !.next = @ + 1,
                                  !.ret = st.next,
                                  !.pend = @ \cup {UnloadRequest(st.next, "LOAD", configuration0,
                                                                 options.emptyWindowBackupFolder)},
                                  !.deliveries = Append(@, [Delivery(st.next, "load", TRUE, FALSE,
                                                                     configuration0)
                                                            EXCEPT !.hasDefaultState =
                                                                      found.origin = "default"])]
        ELSE \* existing window
             LET codeWindow == First(SelectSeq(st.windows, LAMBDA w : w.id = reuse), NoWindow)
                 currentWindowConfig == codeWindow.config
                 configuration ==
                    IF /\ ~Truthy(configuration0.extensionDevelopmentPath)
                       /\ codeWindow.loaded
                       /\ Truthy(currentWindowConfig.extensionDevelopmentPath)
                    THEN [configuration0 EXCEPT !.extensionDevelopmentPath =
                                                   currentWindowConfig.extensionDevelopmentPath]
                    ELSE configuration0
             IN  [st EXCEPT !.order = focused(@, reuse),
                            !.ret = reuse,
                            !.pend = @ \cup {UnloadRequest(reuse, "LOAD", configuration,
                                                           options.emptyWindowBackupFolder)},
                            !.deliveries = Append(@, Delivery(reuse, "load", FALSE, FALSE,
                                                              configuration))]

\* WindowsManager.openInBrowserWindow, up to the call of lifecycleService.unload;
\* st.ret is the id of the window returned
openInBrowserWindow(st, options, ctx) ==
    LET cli == ctx.openConfig.cli
        configuration0 ==
            Configuration(options.workspace, options.folderPath,
                          IF Truthy(options.emptyWindowBackupFolder)
                          THEN joinBackupHome(options.emptyWindowBackupFolder) ELSE Undef,
                          options.files.toOpen, options.files.toCreate, options.files.toDiff,
                          cli.extensionDevelopmentPath, cli.extensionTestsPath,
                          ctx.openConfig.initialStartup)
        lastActive == getLastActiveWindowOf(st.windows, st.order)
        reuse == IF options.forceNewWindow THEN 0
                 ELSE IF options.windowToUse # 0 THEN options.windowToUse
                 ELSE lastActive.id
    IN  IF reuse = 0
        THEN \* new window
             LET found == getNewWindowState(configuration0, ctx.windowConfig, st.windows,
                                            lastActive, st.wstate, st.lastClosed)
                 allow == allowFullscreen(found.origin = "default", ctx.windowConfig,
                                          ctx.wasRestarted)
                 downgrade == found.state.mode = "fullscreen" /\ ~allow
                 state == IF downgrade THEN [found.state EXCEPT !.mode = "normal"]
                          ELSE found.state
                 st1 == IF downgrade THEN downgradeStored(st, found) ELSE st
                 codeWindow == CodeWindow(st.next, configuration0.extensionDevelopmentPath,
                                          Truthy(configuration0.extensionTestsPath), state)
                 reg == registerBackup(st.backups, configuration0,
                                       options.emptyWindowBackupFolder)
             IN  IF ctx.settleNow
                 THEN \* the promise of a window that is not ready is settled already:
                      \* its callback runs before openInBrowserWindow returns
                      [st1 EXCEPT !.windows = Append(@, [codeWindow EXCEPT
                                                           !.loaded = TRUE,
                                                           !.config = reg.configuration]),
                                  !.order = focused(@, st.next),
                                  !.next = @ + 1,
                                  !.ret = st.next,
                                  !.backups = reg.registry,
                                  !.deliveries = Append(@, [Delivery(st.next, "load", TRUE, TRUE,
                                                                     configuration0)
                                                            EXCEPT !.hasDefaultState =
                                                                      found.origin = "default"])]
                 ELSE [st1 EXCEPT !.windows = Append(@, codeWindow),
                                  !.order = focused(@, st.next),
                                  !.next = @ + 1,
                                  !.ret = st.next,
                                  !.pend = @ \cup {UnloadRequest(st.next, "LOAD", configuration0,
                                                                 options.emptyWindowBackupFolder)},
                                  !.deliveries = Append(@, [Delivery(st.next, "load", TRUE, FALSE,
                                                                     configuration0)
                                                            EXCEPT !.hasDefaultState =
                                                                      found.origin = "default"])]
        ELSE \* existing window
             LET codeWindow == First(SelectSeq(st.windows, LAMBDA w : w.id = reuse), NoWindow)
                 currentWindowConfig == codeWindow.config
                 configuration ==
                    IF /\ ~Truthy(configuration0.extensionDevelopmentPath)
                       /\ codeWindow.loaded
                       /\ Truthy(currentWindowConfig.extensionDevelopmentPath)
                    THEN [configuration0 EXCEPT !.extensionDevelopmentPath =
                                                   currentWindowConfig.extensionDevelopmentPath]
                    ELSE configuration0
             IN  [st EXCEPT !.order = focused(@, reuse),
                            !.ret = reuse,
                            !.pend = @ \cup {UnloadRequest(reuse, "LOAD", configuration,
                                                           options.emptyWindowBackupFolder)},
                            !.deliveries = Append(@, Delivery(reuse, "load", FALSE, FALSE,
                                                              configuration))]

\* WindowsManager.doOpenFilesInExistingWindow
doOpenFilesInExistingWindow(st, window, files) ==
    [st EXCEPT !.order = focused(@, window.id),
               !.ret = window.id,
               !.deliveries = Append(@, [win |-> window.id, how |-> "openFiles",
                                         created |-> FALSE, settled |-> TRUE,
                                         hasDefaultState |-> FALSE, step |-> "",
                                         workspace |-> NoWorkspace, folderPath |-> Undef,
                                         filesToOpen |-> files.toOpen,
                                         filesToCreate |-> files.toCreate,
                                         filesToDiff |-> files.toDiff])]

\* WindowsManager.doOpenFolderOrWorkspace
doOpenFolderOrWorkspace(st, ws, folder, openInNewWindow, files, windowToUse, ctx) ==
    openInBrowserWindow(st, BrowserWindowOptions(ws, folder, files, openInNewWindow,
                                                 windowToUse, Undef), ctx)

\* usedWindows.push(window)
push(st) == [st EXCEPT !.used = Append(@, st.ret)]

\* usedWindows.push(window) that keeps the three lists for the next window
usedKeepingFiles(st) == push(st)

\* usedWindows.push(window), then the three lists reset
used(st) == [push(st) EXCEPT !.files = NoFiles]

-----------------------------------------------------------------------------
(* The window finder *)

\* files.isParent(path, candidate, ignoreCase), on the paths of the model
isParent(path, candidate, ignoreCase) ==
    path = "/a/f" /\ (candidate = "/a" \/ (ignoreCase /\ candidate = "/A"))

NoBest == [kind |-> "none", win |-> 0, folder |-> Undef]
BestWindow(i) == [kind |-> "window", win |-> i, folder |-> Undef]
BestFolder(f) == [kind |-> "folder", win |-> 0, folder |-> f]

\* windowsFinder.findBestWindowOrFolderForFile: the results it can give; whether a
\* parent folder of the file holds settings is up to the disk
findBestWindowOrFolderForFile(windows, order, newWindow, reuseWindow, context, filePath) ==
    LET onFilePath == SelectSeq(windows, LAMBDA w : /\ Truthy(openedFolderPath(w))
                                                    /\ isParent(filePath, openedFolderPath(w),
                                                                ~isLinux))
        lastActive == getLastActiveWindowOf(windows, order)
        fallback == IF ~newWindow /\ lastActive # NoWindow
                    THEN {BestWindow(lastActive.id)} ELSE {NoBest}
    IN  IF ~newWindow /\ Truthy(filePath) /\ context \in {"DESKTOP", "CLI", "DOCK"}
        THEN IF Len(onFilePath) > 0 THEN {BestWindow(onFilePath[1].id)}
             ELSE IF ~reuseWindow /\ isParent(filePath, "/a", FALSE)
             THEN {BestFolder("/a")} \cup fallback
             ELSE fallback
        ELSE fallback

-----------------------------------------------------------------------------
(* open() and doOpen() *)

\* a shouldOpenNewWindow whose folder setting overrides forceReuseWindow
shouldOpenNewWindowBySetting(openConfig, windowConfig) ==
    LET folderConfig == IF Truthy(windowConfig.openFoldersInNewWindow)
                        THEN windowConfig.openFoldersInNewWindow ELSE "default"
        filesConfig == IF Truthy(windowConfig.openFilesInNewWindow)
                       THEN windowConfig.openFilesInNewWindow ELSE "off"
        forced == (openConfig.preferNewWindow \/ openConfig.forceNewWindow)
                  /\ ~openConfig.forceReuseWindow
    IN  [openFolderInNewWindow |->
            IF ~openConfig.forceNewWindow /\ folderConfig \in {"on", "off"}
            THEN folderConfig = "on" ELSE forced,
         openFilesInNewWindow |->
            IF openConfig.forceNewWindow \/ openConfig.forceReuseWindow
            THEN openConfig.forceNewWindow /\ ~openConfig.forceReuseWindow
            ELSE IF /\ ~Truthy(openConfig.cli.extensionDevelopmentPath)
                    /\ filesConfig \in {"on", "off"}
            THEN filesConfig = "on"
            ELSE openConfig.context = "DOCK"]

\* WindowsManager.shouldOpenNewWindow
shouldOpenNewWindow(openConfig, windowConfig) ==
    LET folderConfig == IF Truthy(windowConfig.openFoldersInNewWindow)
                        THEN windowConfig.openFoldersInNewWindow ELSE "default"
        filesConfig == IF Truthy(windowConfig.openFilesInNewWindow)
                       THEN windowConfig.openFilesInNewWindow ELSE "off"
        forced == (openConfig.preferNewWindow \/ openConfig.forceNewWindow)
                  /\ ~openConfig.forceReuseWindow
    IN  [openFolderInNewWindow |->
            IF /\ ~openConfig.forceNewWindow /\ ~openConfig.forceReuseWindow
               /\ folderConfig \in {"on", "off"}
            THEN folderConfig = "on" ELSE forced,
         openFilesInNewWindow |->
            IF openConfig.forceNewWindow \/ openConfig.forceReuseWindow
            THEN openConfig.forceNewWindow /\ ~openConfig.forceReuseWindow
            ELSE IF /\ ~Truthy(openConfig.cli.extensionDevelopmentPath)
                    /\ filesConfig \in {"on", "off"}
            THEN filesConfig = "on"
            ELSE openConfig.context = "DOCK"]

HasFiles(files) == Len(files.toOpen) > 0 \/ Len(files.toCreate) > 0 \/ Len(files.toDiff) > 0

\* a files step that opens the files in a window of their own whatever was found
openFilesStepInNewWindow(st0, nothingToRestore, best, ctx) ==
    IF ~(Len(st0.foldersToOpen) = 0 /\ nothingToRestore /\ HasFiles(st0.files)) THEN st0
    ELSE used(openInBrowserWindow([st0 EXCEPT !.filesStep = TRUE],
                                  BrowserWindowOptions(NoWorkspace, Undef, st0.files,
                                                       TRUE, 0, Undef), ctx))

\* doOpen lines 401-465: files without a folder to open or to restore
openFilesStep(st0, nothingToRestore, best, ctx) ==
    IF ~(Len(st0.foldersToOpen) = 0 /\ nothingToRestore /\ HasFiles(st0.files)) THEN st0
    ELSE LET st == [st0 EXCEPT !.filesStep = TRUE]
         IN  IF best.kind = "window"
             THEN LET w == First(SelectSeq(st.windows, LAMBDA v : v.id = best.win), NoWindow)
                  IN  IF HasWorkspace(openedWorkspace(w))
                      THEN [st EXCEPT !.workspacesToOpen = Append(@, openedWorkspace(w))]
                      ELSE IF Truthy(openedFolderPath(w))
                      THEN [st EXCEPT !.foldersToOpen = Append(@, openedFolderPath(w))]
                      ELSE used(doOpenFilesInExistingWindow(st, w, st.files))
             ELSE IF best.kind = "folder"
             THEN [st EXCEPT !.foldersToOpen = Append(@, best.folder)]
             ELSE used(openInBrowserWindow(st, BrowserWindowOptions(NoWorkspace, Undef,
                                                                    st.files, TRUE, 0, Undef),
                                           ctx))

\* a workspace step that does not look for a moved workspace file
reloadMovedWorkspacesNever(st, all, ctx) == st

\* doOpen lines 474-486: windows on the same workspace id under another configPath
RECURSIVE reloadMovedWorkspaces(_, _, _)
reloadMovedWorkspaces(st, all, ctx) ==
    IF all = <<>> THEN st
    ELSE LET workspaceToOpen == Head(all)
             existingWindow == findWindowOnWorkspace(st.windows, workspaceToOpen)
         IN  IF /\ existingWindow # NoWindow
                /\ openedWorkspace(existingWindow).configPath # workspaceToOpen.configPath
             THEN reloadMovedWorkspaces(
                    [used(doOpenFolderOrWorkspace(st, workspaceToOpen, Undef, FALSE, st.files,
                                                  existingWindow.id, ctx))
                        EXCEPT !.newWin = TRUE],
                    Tail(all), ctx)
             ELSE reloadMovedWorkspaces(st, Tail(all), ctx)

\* doOpen lines 505-519 and 543-557: the workspaces or folders not open yet
RECURSIVE openRemaining(_, _, _, _, _)
openRemaining(st, all, isFolder, windowsOn, ctx) ==
    IF all = <<>> THEN st
    ELSE LET toOpen == Head(all)
             alreadyOpen ==
                IF isFolder
                THEN SeqSome(windowsOn, LAMBDA w : isEqual(openedFolderPath(w), toOpen, ~isLinux))
                ELSE SeqSome(windowsOn, LAMBDA w : openedWorkspace(w).id = toOpen.id)
         IN  IF alreadyOpen THEN openRemaining(st, Tail(all), isFolder, windowsOn, ctx)
             ELSE openRemaining(
                    [used(doOpenFolderOrWorkspace(st,
                                                  IF isFolder THEN NoWorkspace ELSE toOpen,
                                                  IF isFolder THEN toOpen ELSE Undef,
                                                  st.newWin, st.files, 0, ctx))
                        EXCEPT !.newWin = TRUE],
                    Tail(all), isFolder, windowsOn, ctx)

\* doOpen lines 488-502 and 526-540: files go to the first window already showing
\* one of the targets
openInExisting(st, windowsOn) ==
    IF Len(windowsOn) > 0
    THEN [used(doOpenFilesInExistingWindow(st, windowsOn[1], st.files)) EXCEPT !.newWin = TRUE]
    ELSE st

\* doOpen lines 467-520
openWorkspacesStep(st, workspacesToRestore, ctx) ==
    LET all == distinct(st.workspacesToOpen \o workspacesToRestore, LAMBDA w : w.id)
        st1 == reloadMovedWorkspaces(st, all, ctx)
        windowsOn == SelectSeq(SeqMap(all, LAMBDA w : findWindowOnWorkspace(st1.windows, w)),
                               LAMBDA w : w # NoWindow)
    IN  IF Len(all) = 0 THEN st
        ELSE openRemaining(openInExisting(st1, windowsOn), all, FALSE, windowsOn, ctx)

\* doOpen lines 522-558
openFoldersStep(st, foldersToRestore, ctx) ==
    LET all == distinct(st.foldersToOpen \o foldersToRestore,
                        LAMBDA f : IF isLinux THEN f ELSE toLowerCase(f))
        windowsOn == SelectSeq(SeqMap(all, LAMBDA f : findWindowOnFolder(st.windows, f)),
                               LAMBDA w : w # NoWindow)
    IN  IF Len(all) = 0 THEN st
        ELSE openRemaining(openInExisting(st, windowsOn), all, TRUE, windowsOn, ctx)

\* doOpen lines 560-581
RECURSIVE restoreEmptyStep(_, _, _)
restoreEmptyStep(st, emptyToRestore, ctx) ==
    IF emptyToRestore = <<>> THEN st
    ELSE restoreEmptyStep(
           [used(openInBrowserWindow(st, BrowserWindowOptions(NoWorkspace, Undef, st.files,
                                                              TRUE, 0, Head(emptyToRestore)),
                                     ctx))
               EXCEPT !.newWin = TRUE],
           Tail(emptyToRestore), ctx)

\* doOpen lines 585-594: the loop over the empty windows to open
RECURSIVE openEmpty(_, _, _)
openEmpty(st, emptyToOpen, ctx) ==
    IF emptyToOpen = 0 THEN st
    ELSE openEmpty(
           [push(openInBrowserWindow(st, BrowserWindowOptions(NoWorkspace, Undef, NoFiles,
                                                              st.newWin, 0, Undef), ctx))
               EXCEPT !.newWin = TRUE],
           emptyToOpen - 1, ctx)

\* doOpen lines 583-595
openEmptyStep(st, emptyToOpen, ctx) ==
    IF Len(st.used) = 0 THEN openEmpty(st, emptyToOpen, ctx) ELSE st

\* doOpen line 597
distinctUsed(st) == [st EXCEPT !.used = distinct(@, LAMBDA i : i)]

\* the deliveries of the placement step that has just run carry its name
step(st, name) ==
    [st EXCEPT !.deliveries = SeqMap(@, LAMBDA d : IF d.step = "" THEN [d EXCEPT !.step = name]
                                                   ELSE d)]

\* WindowsManager.doOpen; st carries the arguments and what is built up
doOpen(st0, workspacesToRestore, foldersToRestore, emptyToRestore, emptyToOpen, best, ctx) ==
    distinctUsed(
      step(openEmptyStep(
        step(restoreEmptyStep(
          step(openFoldersStep(
            step(openWorkspacesStep(
              step(openFilesStep(st0, Len(foldersToRestore) = 0 /\ Len(emptyToRestore) = 0,
                                 best, ctx), "files"),
              workspacesToRestore, ctx), "workspaces"),
            foldersToRestore, ctx), "folders"),
          emptyToRestore, ctx), "emptyToRestore"),
        emptyToOpen, ctx), "emptyToOpen"))

-----------------------------------------------------------------------------
(* open() *)

\* ParsedArgs, as far as open() reads it
Cli(args, devPath, testsPath, diff) ==
    [args |-> args, extensionDevelopmentPath |-> devPath, extensionTestsPath |-> testsPath,
     diff |-> diff, wait |-> FALSE, waitMarkerFilePath |-> Undef]

\* IOpenConfiguration
OpenConfig(context, cli, pathsToOpen, forceEmpty, diffMode, forceNew, forceReuse, prefer, initialStartup) ==
    [context |-> context, cli |-> cli, pathsToOpen |-> pathsToOpen,
     forceEmpty |-> forceEmpty, diffMode |-> diffMode, forceNewWindow |-> forceNew,
     forceReuseWindow |-> forceReuse, preferNewWindow |-> prefer,
     initialStartup |-> initialStartup]

\* IWindowSettings
WindowSettings(folders, files, restore, reopen, dims, restoreFullscreen) ==
    [openFoldersInNewWindow |-> folders, openFilesInNewWindow |-> files,
     restoreWindows |-> restore, reopenFolders |-> reopen,
     newWindowDimensions |-> dims, restoreFullscreen |-> restoreFullscreen]

\* historyService.addRecentlyOpened: newest first, no entry twice
addRecentlyOpened(history, workspaces, files) ==
    [workspaces |-> distinct(workspaces \o history.workspaces, LAMBDA e : e),
     files |-> distinct(files \o history.files, LAMBDA e : e)]

\* historyService.removeFromRecentlyOpened
removeFromRecentlyOpened(history, paths) ==
    [workspaces |-> SelectSeq(history.workspaces, LAMBDA e : e \notin paths),
     files |-> SelectSeq(history.files, LAMBDA e : e \notin paths)]

\* open lines 358-373: what open() adds to the recently opened list
recentlyOpened(history, windowsToOpen) ==
    addRecentlyOpened(
        history,
        SeqMap(SelectSeq(windowsToOpen, LAMBDA v : HasWorkspace(v.workspace)
                                                   \/ Truthy(v.folderPath)),
               LAMBDA v : IF HasWorkspace(v.workspace) THEN v.workspace.configPath
                          ELSE v.folderPath),
        SeqMap(SelectSeq(windowsToOpen, LAMBDA v : ~HasWorkspace(v.workspace)
                                                   /\ ~Truthy(v.folderPath)
                                                   /\ Truthy(v.filePath)),
               LAMBDA v : v.filePath))

\* WindowsManager.doGetUntitledWorkspacesFromLastSession
doGetUntitledWorkspacesFromLastSession(state) ==
    LET candidates ==
            SeqMap(SelectSeq(<<state.lastActiveWindow>> \o state.openedWindows,
                             LAMBDA s : /\ ~s.isNull /\ HasWorkspace(s.workspace)
                                        /\ isUntitledWorkspace(s.workspace)),
                   LAMBDA s : s.workspace)
    IN  SeqMap(SelectSeq(Flatten(SeqMap(candidates, LAMBDA c : parsePath(c.configPath, FALSE))),
                         LAMBDA v : HasWorkspace(v.workspace)),
               LAMBDA v : v.workspace)

\* a classification that diffs whatever number of files diff mode is given
classifyFilesAlwaysDiff(openConfig, windowsToOpen) ==
    LET filesToOpen == SeqMap(SelectSeq(windowsToOpen, LAMBDA v : Truthy(v.filePath)
                                                                  /\ ~v.createFilePath),
                              LAMBDA v : FileOf(v.filePath, FALSE))
        filesToCreate == SeqMap(SelectSeq(windowsToOpen, LAMBDA v : Truthy(v.filePath)
                                                                    /\ v.createFilePath),
                                LAMBDA v : FileOf(v.filePath, TRUE))
    IN  IF openConfig.diffMode
        THEN [toOpen |-> <<>>, toCreate |-> <<>>, toDiff |-> filesToOpen]
        ELSE [toOpen |-> filesToOpen, toCreate |-> filesToCreate, toDiff |-> <<>>]

\* open lines 304-313: the files to open, to create and to diff
classifyFiles(openConfig, windowsToOpen) ==
    LET filesToOpen == SeqMap(SelectSeq(windowsToOpen, LAMBDA v : Truthy(v.filePath)
                                                                  /\ ~v.createFilePath),
                              LAMBDA v : FileOf(v.filePath, FALSE))
        filesToCreate == SeqMap(SelectSeq(windowsToOpen, LAMBDA v : Truthy(v.filePath)
                                                                    /\ v.createFilePath),
                                LAMBDA v : FileOf(v.filePath, TRUE))
    IN  IF openConfig.diffMode /\ Len(filesToOpen) = 2
        THEN [toOpen |-> <<>>, toCreate |-> <<>>, toDiff |-> filesToOpen]
        ELSE [toOpen |-> filesToOpen, toCreate |-> filesToCreate, toDiff |-> <<>>]

\* open lines 350-356: the used window that gets the focus at the end
focusLastActive(order, usedIds, windows, state) ==
    LET lastActiveWindw ==
            SelectSeq(usedIds,
                      LAMBDA i : \E k \in 1..Len(windows) :
                                   /\ windows[k].id = i
                                   /\ backupPathOf(windows[k]) = state.lastActiveWindow.backupPath)
    IN  IF Len(usedIds) > 1 /\ ~state.lastActiveWindow.isNull /\ Len(lastActiveWindw) > 0
        THEN focused(order, lastActiveWindw[1]) ELSE order

\* the state of the manager as one open() call finds it
Snapshot ==
    [windows |-> WINDOWS, pending |-> pending, backups |-> backups, mru |-> mru,
     windowsState |-> windowsState, lastClosedWindowState |-> lastClosedWindowState]

NoOpen ==
    [calls |-> 0,
     openConfig |-> OpenConfig("CLI", Cli(<<>>, Undef, Undef, FALSE), <<>>, FALSE, FALSE,
                               FALSE, FALSE, FALSE, FALSE),
     windowConfig |-> WindowSettings(Undef, Undef, Undef, Undef, Undef, FALSE),
     windowsToOpen |-> <<>>, files |-> NoFiles, used |-> <<>>, deliveries |-> <<>>,
     filesStep |-> FALSE,
     before |-> [windows |-> <<>>, pending |-> {}, backups |-> NoBackups, mru |-> NoMru,
                 windowsState |-> EmptyWindowsState, lastClosedWindowState |-> NoState]]

\* open lines 348-382: the manager after doOpen has returned st
\* open() lines 375-380 with waitForWindowClose lines 1352-1361: the listener
\* that deletes the wait marker file once the window used has closed
waitersAfterOpen(openConfig, usedWindows) ==
    IF /\ openConfig.context = "CLI"
       /\ openConfig.cli.wait
       /\ Truthy(openConfig.cli.waitMarkerFilePath)
       /\ Len(usedWindows) = 1
       /\ usedWindows[1] # NoWindow.id
    THEN waiters \cup {[windowId |-> usedWindows[1],
                        marker |-> openConfig.cli.waitMarkerFilePath]}
    ELSE waiters

opened(st, openConfig, windowConfig, windowsToOpen, history, files) ==
    /\ WINDOWS' = st.windows
    /\ focusOrder' = focusLastActive(st.order, st.used, st.windows, st.wstate)
    /\ pending' = st.pend
    /\ backups' = st.backups
    /\ nextId' = st.next
    /\ windowsState' = st.wstate
    /\ lastClosedWindowState' = st.lastClosed
    /\ mru' = IF /\ ~\E k \in 1..Len(st.windows) :
                       /\ st.windows[k].id \in Range(st.used)
                       /\ isExtensionDevelopmentHost(st.windows[k])
                 /\ ~openConfig.cli.diff
              THEN recentlyOpened(history, windowsToOpen) ELSE history
    /\ lastOpen' = [calls |-> lastOpen.calls + 1, openConfig |-> openConfig,
                    windowConfig |-> windowConfig,
                    windowsToOpen |-> windowsToOpen, files |-> files,
                    used |-> st.used, deliveries |-> st.deliveries,
                    filesStep |-> st.filesStep,
                    before |-> Snapshot]
    /\ vetoes' = <<>>
    /\ waiters' = waitersAfterOpen(openConfig, st.used)
    /\ UNCHANGED <<lastUnload, dialogs, unlinked>>
    /\ thrown' = FALSE
    /\ UNCHANGED <<platform, store, quitRequested, storeWrites, migrations, moves,
                   wasRestarted, settleNow>>

\* open lines 315-348: the targets by kind, and the call of doOpen
openClassified(openConfig, windowConfig, windowsToOpen, history, files, should) ==
    LET workspacesToOpen ==
            distinct(SeqMap(SelectSeq(windowsToOpen, LAMBDA v : HasWorkspace(v.workspace)),
                            LAMBDA v : v.workspace),
                     LAMBDA w : w.id)
        foldersToOpen ==
            distinct(SeqMap(SelectSeq(windowsToOpen, LAMBDA v : Truthy(v.folderPath)
                                                                /\ ~Truthy(v.filePath)),
                            LAMBDA v : v.folderPath),
                     LAMBDA f : IF isLinux THEN f ELSE toLowerCase(f))
        restoring == openConfig.initialStartup
                     /\ ~Truthy(openConfig.cli.extensionDevelopmentPath)
        foldersToRestore == IF restoring THEN backups.folders ELSE <<>>
        workspacesToRestore ==
            IF restoring
            THEN backups.workspaces \o doGetUntitledWorkspacesFromLastSession(windowsState)
            ELSE <<>>
        emptyToRestore ==
            IF restoring
            THEN distinct(backups.empty
                          \o SeqMap(SelectSeq(windowsToOpen,
                                              LAMBDA v : /\ ~HasWorkspace(v.workspace)
                                                         /\ ~Truthy(v.folderPath)
                                                         /\ Truthy(v.backupPath)),
                                    LAMBDA v : basename(v.backupPath)),
                          LAMBDA e : e)
            ELSE <<>>
        emptyToOpen ==
            Len(SelectSeq(windowsToOpen, LAMBDA v : /\ ~HasWorkspace(v.workspace)
                                                    /\ ~Truthy(v.folderPath)
                                                    /\ ~Truthy(v.filePath)
                                                    /\ ~Truthy(v.backupPath)))
        ctx == [openConfig |-> openConfig, windowConfig |-> windowConfig,
                wasRestarted |-> wasRestarted, settleNow |-> settleNow]
        st0 == [windows |-> WINDOWS, order |-> focusOrder, pend |-> pending,
                backups |-> backups,
                used |-> <<>>, deliveries |-> <<>>, files |-> files, filesStep |-> FALSE,
                newWin |-> should.openFolderInNewWindow, next |-> nextId, ret |-> 0,
                wstate |-> windowsState, lastClosed |-> lastClosedWindowState,
                workspacesToOpen |-> workspacesToOpen, foldersToOpen |-> foldersToOpen]
    IN  \E best \in findBestWindowOrFolderForFile(
                        WINDOWS, focusOrder, should.openFilesInNewWindow,
                        openConfig.forceReuseWindow, openConfig.context,
                        First(files.toOpen \o files.toCreate \o files.toDiff,
                              FileOf(Undef, FALSE)).filePath) :
          opened(doOpen(st0, workspacesToRestore, foldersToRestore, emptyToRestore,
                        emptyToOpen, best, ctx),
                 openConfig, windowConfig, windowsToOpen, history, files)

\* open lines 302-313: the targets resolved, and the files classified
openTargets(openConfig, windowConfig, windowsToOpen, history) ==
    openClassified(openConfig, windowConfig, windowsToOpen, history,
                   classifyFiles(openConfig, windowsToOpen),
                   shouldOpenNewWindow(openConfig, windowConfig))

\* WindowsManager.open
Open(openConfig, windowConfig) ==
    /\ lastOpen.calls < MaxOpens
    /\ openTargets(openConfig, windowConfig,
                   getWindowsToOpen(openConfig,
                                    getRestoreWindowsSetting(wasRestarted, windowConfig),
                                    windowsState),
                   removeFromRecentlyOpened(
                       mru, notFound(pathsParsed(openConfig,
                                                 getRestoreWindowsSetting(wasRestarted,
                                                                          windowConfig),
                                                 windowsState))))

-----------------------------------------------------------------------------
(* The prompt to save an untitled workspace *)

\* what onBeforeWindowUnload did with one event: the message box and the choice made
\* in it, the target picked in the save dialog, the argument of e.veto and what it
\* settles to, and the calls made to the workspaces service
Handled(prompted, res, target, veto, vetoed, deleted, saved) ==
    [prompted |-> prompted, res |-> res, target |-> target, veto |-> veto,
     vetoed |-> vetoed, deleted |-> deleted, saveWorkspace |-> saved]

\* the handler returned without a prompt and without a call of e.veto
NotHandled == Handled(FALSE, Undef, Undef, "none", FALSE, NoWorkspace, "none")

\* saveWorkspace(workspace, target).then(() => false, () => false)
savedThen(saved) == IF saved THEN FALSE ELSE FALSE

\* a prompt whose veto is the rejection of a failed save
promptToSaveUntitledWorkspaceRejecting(workspace, res, target, saved) ==
    IF res = "CANCEL"
    THEN Handled(TRUE, res, Undef, "true", TRUE, NoWorkspace, "none")
    ELSE IF res = "DONT_SAVE"
    THEN Handled(TRUE, res, Undef, "false", FALSE, workspace, "none")
    ELSE IF Truthy(target)
    THEN Handled(TRUE, res, target, "promise", ~saved, NoWorkspace,
                 IF saved THEN "resolved" ELSE "rejected")
    ELSE Handled(TRUE, res, Undef, "true", TRUE, NoWorkspace, "none")

\* a prompt that gives up the workspace when the save fails
promptToSaveUntitledWorkspaceDeletingUnsaved(workspace, res, target, saved) ==
    IF res = "CANCEL"
    THEN Handled(TRUE, res, Undef, "true", TRUE, NoWorkspace, "none")
    ELSE IF res = "DONT_SAVE"
    THEN Handled(TRUE, res, Undef, "false", FALSE, workspace, "none")
    ELSE IF Truthy(target)
    THEN Handled(TRUE, res, target, "promise", savedThen(saved),
                 IF saved THEN NoWorkspace ELSE workspace,
                 IF saved THEN "resolved" ELSE "rejected")
    ELSE Handled(TRUE, res, Undef, "true", TRUE, NoWorkspace, "none")

\* WindowsManager.promptToSaveUntitledWorkspace: res is the button chosen in the
\* message box, target the path picked in the save dialog (Undef when the dialog is
\* cancelled), saved whether saveWorkspace succeeds
promptToSaveUntitledWorkspace(workspace, res, target, saved) ==
    IF res = "CANCEL"
    THEN Handled(TRUE, res, Undef, "true", TRUE, NoWorkspace, "none")
    ELSE IF res = "DONT_SAVE"
    THEN Handled(TRUE, res, Undef, "false", FALSE, workspace, "none")
    ELSE IF Truthy(target)
    THEN Handled(TRUE, res, target, "promise", savedThen(saved), NoWorkspace,
                 IF saved THEN "resolved" ELSE "rejected")
    ELSE Handled(TRUE, res, Undef, "true", TRUE, NoWorkspace, "none")

\* a handler that asks only when the window closes
onBeforeWindowUnloadClosingOnly(window, reason, windowCount, res, target, saved) ==
    LET workspace == openedWorkspace(window)
    IN  IF reason # "CLOSE" THEN NotHandled
        ELSE IF ~HasWorkspace(workspace) \/ ~isUntitledWorkspace(workspace) THEN NotHandled
        ELSE IF ~isMacintosh /\ windowCount = 1 THEN NotHandled
        ELSE promptToSaveUntitledWorkspace(workspace, res, target, saved)

\* a handler that asks when the last window closes, too
onBeforeWindowUnloadLastWindow(window, reason, windowCount, res, target, saved) ==
    LET workspace == openedWorkspace(window)
    IN  IF reason # "CLOSE" /\ reason # "LOAD" THEN NotHandled
        ELSE IF ~HasWorkspace(workspace) \/ ~isUntitledWorkspace(workspace) THEN NotHandled
        ELSE promptToSaveUntitledWorkspace(workspace, res, target, saved)

\* WindowsManager.onBeforeWindowUnload; windowCount is this.getWindowCount()
onBeforeWindowUnload(window, reason, windowCount, res, target, saved) ==
    LET windowClosing == reason = "CLOSE"
        windowLoading == reason = "LOAD"
        workspace == openedWorkspace(window)
    IN  IF ~windowClosing /\ ~windowLoading THEN NotHandled
        ELSE IF ~HasWorkspace(workspace) \/ ~isUntitledWorkspace(workspace) THEN NotHandled
        ELSE IF windowClosing /\ ~isMacintosh /\ windowCount = 1 THEN NotHandled
        ELSE promptToSaveUntitledWorkspace(workspace, res, target, saved)

\* an unload event: the window, the reason, the negotiation of a load it belongs to,
\* what the window showed, the number of live windows, and what the handler did
UnloadEvent(win, reason, request, workspace, windowCount, handled) ==
    [win |-> win, reason |-> reason, request |-> request,
     workspace |-> workspace, windowCount |-> windowCount, handled |-> handled]

NoRequest == UnloadRequest(0, Undef, NoConfig, Undef)

NoUnload == UnloadEvent(0, Undef, NoRequest, NoWorkspace, 0, NotHandled)

-----------------------------------------------------------------------------
(* State shared by the specifications *)


\* everything but platform, store and windowsState, as the constructor leaves it
Constructed ==
    /\ lastClosedWindowState = NoState
    /\ WINDOWS = <<>>
    /\ focusOrder = <<>>
    /\ quitRequested = FALSE
    /\ pending = {}
    /\ mru = NoMru
    /\ nextId = 1
    /\ storeWrites = 0
    /\ thrown = FALSE
    /\ moves = 0
    /\ vetoes = <<>>
    /\ lastUnload = NoUnload
    /\ dialogs = {}
    /\ waiters = {}
    /\ unlinked = {}
    /\ lastOpen = NoOpen

-----------------------------------------------------------------------------
(* Spec: one run of the application, from the constructor to the quit *)

UiNormal == Ui("normal", 100, 100)
UiFull == Ui("fullscreen", 0, 0)
UiMoved == Ui("normal", 130, 130)

\* blobs a previous run left in the store:
\* two folder windows equal but for the case, and a workspace window
BlobFolders ==
    WindowsStateOf(WState(NoWorkspace, "/a", Undef, "/bk/a", UiFull), NoState,
                   "array", <<WState(NoWorkspace, "/a", Undef, "/bk/a", UiFull),
                              WState(NoWorkspace, "/A", Undef, "/bk/A", UiNormal),
                              WState(Ws("w1", "/w1.ws"), Undef, Undef, "/bk/w1", UiMoved)>>,
                   "array", <<>>)
\* an empty window with a backup, and an extension development host
BlobEmpty ==
    WindowsStateOf(WState(NoWorkspace, Undef, Undef, "/bk/old1", UiNormal),
                   WState(NoWorkspace, "/b", Undef, Undef, UiMoved),
                   "array", <<>>, "array", <<>>)

\* backups a previous run left behind (hot exit)
BackupsFolder == [workspaces |-> <<>>, folders |-> <<"/b">>, empty |-> <<>>]

\* what one start of the application finds
Startup(os, blob, registry, restarted) ==
    [platform |-> os, store |-> blob, backups |-> registry, wasRestarted |-> restarted]

\* the state after the constructor has run
InitFrom(Startups) ==
    /\ \E s \in Startups :
         /\ platform = s.platform
         /\ store = s.store
         /\ backups = s.backups
         /\ wasRestarted = s.wasRestarted
    /\ windowsState = migrateLegacyWindowState(loadWindowsState(store))
    /\ migrations = 1
    /\ settleNow \in BOOLEAN
    /\ Constructed

SessionStartups ==
    { Startup("linux", BlobFolders, NoBackups, FALSE),
      Startup("darwin", BlobFolders, NoBackups, FALSE),
      Startup("win32", NoBlob, NoBackups, FALSE),
      Startup("darwin", BlobEmpty, BackupsFolder, TRUE) }

Init == InitFrom(SessionStartups)

\* on Windows and Linux the application quits once its last window has closed
allClosed == Len(WINDOWS) = 0 /\ nextId > 1

\* a callback that registers and loads whatever the window answered
UnloadDoneIgnoringVeto(req, veto) ==
    /\ req \in pending
    /\ veto => getWindowById(req.win).loaded
    /\ pending' = pending \ {req}
    /\ LET reg == registerBackup(backups, req.configuration, req.emptyWindowBackupFolder)
       IN  /\ backups' = reg.registry
           /\ WINDOWS' = SeqMap(WINDOWS,
                                LAMBDA w : IF w.id = req.win
                                           THEN [w EXCEPT !.loaded = TRUE,
                                                          !.config = reg.configuration]
                                           ELSE w)
    /\ vetoes' = IF veto THEN Append(vetoes, req.win) ELSE vetoes
    /\ UNCHANGED <<lastUnload, dialogs, waiters, unlinked>>
    /\ thrown' = FALSE
    /\ UNCHANGED <<platform, store, windowsState, lastClosedWindowState, focusOrder,
                   quitRequested, mru, nextId, storeWrites, migrations, moves,
                   wasRestarted, settleNow, lastOpen>>

\* lifecycleService.unload(window, LOAD) settles: the callback of lines 1017-1034.
\* Only a window that shows content can veto.
UnloadDone(req, veto) ==
    /\ req \in pending
    /\ veto => getWindowById(req.win).loaded
    /\ pending' = pending \ {req}
    /\ IF veto
       THEN UNCHANGED <<WINDOWS, backups>>
       ELSE LET reg == registerBackup(backups, req.configuration,
                                      req.emptyWindowBackupFolder)
            IN  /\ backups' = reg.registry
                /\ WINDOWS' = SeqMap(WINDOWS,
                                     LAMBDA w : IF w.id = req.win
                                                THEN [w EXCEPT !.loaded = TRUE,
                                                               !.config = reg.configuration]
                                                ELSE w)
    /\ vetoes' = IF veto THEN Append(vetoes, req.win) ELSE vetoes
    /\ UNCHANGED <<lastUnload, dialogs, waiters, unlinked>>
    /\ thrown' = FALSE
    /\ UNCHANGED <<platform, store, windowsState, lastClosedWindowState, focusOrder,
                   quitRequested, mru, nextId, storeWrites, migrations, moves,
                   wasRestarted, settleNow, lastOpen>>

\* lifecycleService fires onBeforeWindowClose: the close of the window was not
\* vetoed, and the native window closes next
BeforeWindowClose(i) ==
    /\ getWindowById(i) # NoWindow
    /\ getWindowById(i).closing = Undef
    /\ onBeforeWindowClose(getWindowById(i))
    /\ WINDOWS' = SeqMap(WINDOWS, LAMBDA w : IF w.id = i
                                             THEN [w EXCEPT !.closing =
                                                     IF quitRequested THEN "QUIT"
                                                     ELSE "CLOSE"]
                                             ELSE w)
    /\ UNCHANGED <<vetoes, lastUnload, dialogs, waiters, unlinked>>
    /\ thrown' = FALSE
    /\ UNCHANGED <<platform, store, focusOrder, quitRequested, pending, backups, mru,
                   nextId, storeWrites, migrations, moves, wasRestarted, settleNow,
                   lastOpen>>

\* listeners that take the close of any window for the close of theirs
closedListenersOfAny(i) == waiters

\* waitForWindowClose lines 1354-1358: the listeners that _onWindowClose.fire(i) resolves
closedListeners(i) == {l \in waiters : l.windowId = i}

\* onWindowClosed lines 1457-1469: the window leaves WINDOWS and onWindowClose
\* fires with its id; a listener that resolves is disposed of and its marker file
\* deleted (open() line 379)
windowClosed(i) ==
    /\ WINDOWS' = SelectSeq(WINDOWS, LAMBDA w : w.id # i)
    /\ focusOrder' = SelectSeq(focusOrder, LAMBDA j : j # i)
    /\ pending' = {r \in pending : r.win # i}
    /\ waiters' = waiters \ closedListeners(i)
    /\ unlinked' = unlinked \cup {l.marker : l \in closedListeners(i)}

\* WindowsManager.onWindowClosed, on the 'closed' event of the native window
onWindowClosed(i) ==
    /\ getWindowById(i) # NoWindow
    /\ getWindowById(i).closing # Undef
    /\ windowClosed(i)
    /\ UNCHANGED <<vetoes, lastUnload, dialogs>>
    /\ thrown' = FALSE
    /\ UNCHANGED <<platform, store, windowsState, lastClosedWindowState, quitRequested,
                   backups, mru, nextId, storeWrites, migrations, moves, wasRestarted,
                   settleNow, lastOpen>>

\* lifecycleService: the first quit request fires onBeforeQuit
\* (WindowsManager.onBeforeQuit persists the session)
Quit ==
    /\ ~quitRequested
    /\ storeWrites < MaxQuits
    /\ quitRequested' = TRUE
    /\ store' = currentWindowsState
    /\ storeWrites' = storeWrites + 1
    /\ UNCHANGED <<vetoes, lastUnload, dialogs, waiters, unlinked>>
    /\ thrown' = FALSE
    /\ UNCHANGED <<platform, windowsState, lastClosedWindowState, WINDOWS, focusOrder,
                   pending, backups, mru, nextId, migrations, moves, wasRestarted,
                   settleNow, lastOpen>>

\* lifecycleService: a window vetoes its close while the application quits
QuitVetoed(i) ==
    /\ quitRequested
    /\ getWindowById(i) # NoWindow
    /\ getWindowById(i).loaded /\ getWindowById(i).closing = Undef
    /\ quitRequested' = FALSE
    /\ UNCHANGED <<vetoes, lastUnload, dialogs, waiters, unlinked>>
    /\ thrown' = FALSE
    /\ UNCHANGED <<platform, store, windowsState, lastClosedWindowState, WINDOWS,
                   focusOrder, pending, backups, mru, nextId, storeWrites, migrations,
                   moves, wasRestarted, settleNow, lastOpen>>

\* the user moves, resizes, maximizes a window or toggles its fullscreen mode
Move(i, ui) ==
    /\ moves < MaxMoves
    /\ getWindowById(i) # NoWindow
    /\ getWindowById(i).closing = Undef
    /\ getWindowById(i).uiState # ui
    /\ WINDOWS' = SeqMap(WINDOWS, LAMBDA w : IF w.id = i THEN [w EXCEPT !.uiState = ui]
                                             ELSE w)
    /\ moves' = moves + 1
    /\ UNCHANGED <<vetoes, lastUnload, dialogs, waiters, unlinked>>
    /\ thrown' = FALSE
    /\ UNCHANGED <<platform, store, windowsState, lastClosedWindowState, focusOrder,
                   quitRequested, pending, backups, mru, nextId, storeWrites, migrations,
                   wasRestarted, settleNow, lastOpen>>

\* the user brings a window to the front
Focus(i) ==
    /\ getWindowById(i) # NoWindow
    /\ getWindowById(i).closing = Undef
    /\ focusOrder # focused(focusOrder, i)
    /\ focusOrder' = focused(focusOrder, i)
    /\ UNCHANGED <<vetoes, lastUnload, dialogs, waiters, unlinked>>
    /\ thrown' = FALSE
    /\ UNCHANGED <<platform, store, windowsState, lastClosedWindowState, WINDOWS,
                   quitRequested, pending, backups, mru, nextId, storeWrites, migrations,
                   moves, wasRestarted, settleNow, lastOpen>>

\* open() calls
CliRestore ==
    OpenConfig("CLI", Cli(<<>>, Undef, Undef, FALSE), <<>>, FALSE, FALSE,
               FALSE, FALSE, FALSE, FALSE)
CliOpen(args) ==
    OpenConfig("CLI", Cli(args, Undef, Undef, FALSE), <<>>, FALSE, FALSE,
               FALSE, FALSE, FALSE, FALSE)
CliDiff(args) ==
    OpenConfig("CLI", Cli(args, Undef, Undef, TRUE), <<>>, FALSE, TRUE,
               FALSE, FALSE, FALSE, FALSE)
CliDevelopment(args) ==
    OpenConfig("CLI", Cli(args, "/ext", Undef, FALSE), <<>>, FALSE, FALSE,
               FALSE, FALSE, FALSE, FALSE)
ApiOpen(context, paths, forceNew, forceReuse) ==
    OpenConfig(context, Cli(<<>>, Undef, Undef, FALSE), paths, FALSE, FALSE,
               forceNew, forceReuse, FALSE, FALSE)
ApiEmpty ==
    OpenConfig("API", Cli(<<>>, Undef, Undef, FALSE), <<>>, TRUE, FALSE,
               FALSE, FALSE, FALSE, FALSE)

\* window settings: the defaults, and two sets of choices of the user
SettingsDefault == WindowSettings("default", "off", "one", Undef, "default", FALSE)
SettingsAll == WindowSettings("on", "on", "all", Undef, "inherit", TRUE)
SettingsNone == WindowSettings("off", "off", "none", Undef, "maximized", FALSE)

\* one open() call; the first call of a run is the startup call of main.ts.
\* No call is made once the application is quitting.
OpenCall(StartupCalls, LaterCalls, Settings, maxWindows) ==
    /\ ~quitRequested
    /\ isMacintosh \/ ~allClosed
    /\ \E openConfig \in (IF lastOpen.calls = 0 THEN StartupCalls ELSE LaterCalls),
          windowConfig \in Settings :
         Open([openConfig EXCEPT !.initialStartup = (lastOpen.calls = 0)], windowConfig)
    /\ nextId' <= maxWindows + 1

WindowIds == 1..MaxWindows

UiMoves == {UiMoved}

\* the calls of a run that is followed from its start to its quit
SessionStartupCalls == {CliRestore, CliOpen(<<"/a">>), CliDevelopment(<<"/b">>)}
SessionLaterCalls == {ApiOpen("API", <<"/b">>, FALSE, FALSE), CliOpen(<<"/x">>)}
SessionSettings == {SettingsDefault, SettingsAll}

\* the user acts on windows whose unload negotiations have settled (SpecOpen has
\* the calls that arrive while negotiations are in flight)
Next ==
    \/ \E req \in pending, veto \in BOOLEAN : UnloadDone(req, veto)
    \/ \E i \in WindowIds : onWindowClosed(i)
    \/ pending = {} /\ OpenCall(SessionStartupCalls, SessionLaterCalls, SessionSettings,
                                MaxSessionWindows)
    \/ \E i \in WindowIds : pending = {} /\ BeforeWindowClose(i)
    \/ pending = {} /\ Quit
    \/ \E i \in WindowIds : pending = {} /\ QuitVetoed(i)
    \/ \E i \in WindowIds, ui \in UiMoves : pending = {} /\ Move(i, ui)
    \/ \E i \in WindowIds : pending = {} /\ Focus(i)

Spec == Init /\ [][Next]_vars

-----------------------------------------------------------------------------
(* SpecOpen: the placement of the targets of open() calls of every kind *)

OpenStartups ==
    { Startup("linux", BlobFolders, NoBackups, FALSE),
      Startup("darwin", BlobEmpty, BackupsFolder, FALSE),
      Startup("win32", NoBlob, NoBackups, TRUE) }

InitOpen == InitFrom(OpenStartups)

OpenStartupCalls ==
    { CliRestore, CliOpen(<<"/a">>), CliOpen(<<"/a/f">>), CliDiff(<<"/x", "/y">>),
      CliDevelopment(<<"/b">>) }

OpenLaterCalls ==
    { \* the previous session; a folder, a file inside a folder, a workspace
      CliRestore, CliOpen(<<"/a">>), CliOpen(<<"/a/f">>), CliOpen(<<"/w1.ws">>),
      \* folders with forceNewWindow, with forceReuseWindow, with both
      ApiOpen("API", <<"/b">>, TRUE, FALSE), ApiOpen("API", <<"/a">>, TRUE, FALSE),
      ApiOpen("API", <<"/b">>, FALSE, TRUE), ApiOpen("API", <<"/a">>, TRUE, TRUE),
      \* a path that does not exist, an empty window, a file from the dock
      ApiOpen("API", <<"/missing">>, FALSE, FALSE), ApiEmpty,
      ApiOpen("DOCK", <<"/x">>, FALSE, FALSE),
      \* --diff with two files, with a file and a path to create, with three files,
      \* and with two files and two folders
      CliDiff(<<"/x", "/y">>), CliDiff(<<"/x", "/new">>), CliDiff(<<"/x", "/y", "/a/f">>),
      CliDiff(<<"/x", "/y", "/a", "/b">>), CliDiff(<<"/x", "/y", "/new">>),
      \* a workspace with a file, a workspace with a folder
      CliOpen(<<"/w1.ws", "/x">>), ApiOpen("API", <<"/w1.ws", "/a">>, FALSE, FALSE),
      \* a workspace with forceReuseWindow
      ApiOpen("API", <<"/w1.ws">>, FALSE, TRUE),
      \* the workspace w1 under the path that its file was moved to
      CliOpen(<<"/w1-moved.ws">>) }

OpenSettings == {SettingsDefault, SettingsAll, SettingsNone}

NextOpen ==
    \/ OpenCall(OpenStartupCalls, OpenLaterCalls, OpenSettings, MaxWindows)
    \/ \E req \in pending, veto \in BOOLEAN : UnloadDone(req, veto)
    \/ \E i \in WindowIds : Focus(i)

SpecOpen == InitOpen /\ [][NextOpen]_vars

-----------------------------------------------------------------------------
(* SpecMigrate: the migration applied to stored blobs of every shape *)

\* runs of the migration in one behaviour
\* windows created in one run of SpecUnload
MaxUnloadWindows == 2
MaxMigrations == 2

UiA == Ui("normal", 10, 10)
UiB == Ui("maximized", 40, 40)

\* window states of the legacy and of the current shape, and null
MigrateRecords ==
    { WState(NoWorkspace, Undef, "/a", "/bk/a", UiA),        \* legacy workspacePath
      WState(NoWorkspace, "/b", "/a", "/bk/b", UiB),         \* both fields
      WState(NoWorkspace, "/b", NonString, "/bk/b", UiA),    \* workspacePath not a string
      WState(NoWorkspace, "/b", Undef, "/bk/b", UiB),        \* current shape
      WState(Ws("w1", "/w1.ws"), Undef, "", Undef, UiA) }    \* empty legacy string

MigrateArrays ==
    { <<Undef, <<>>>>, <<"array", <<>>>>, <<"number", <<>>>> }
    \cup { <<"array", <<r>>>> : r \in MigrateRecords }
    \cup { <<"array", <<WState(NoWorkspace, Undef, "/a", "/bk/a", UiA), NoState,
                       WState(NoWorkspace, "/b", Undef, "/bk/b", UiB)>>>> }

MigrateBlobs ==
    { WindowsStateOf(last, dev, w[1], w[2], f[1], f[2]) :
        last \in {NoState, WState(NoWorkspace, Undef, "/a", "/bk/a", UiA),
                  WState(NoWorkspace, "/b", Undef, "/bk/b", UiB)},
        dev \in {NoState, WState(NoWorkspace, Undef, "/b", Undef, UiB)},
        w \in MigrateArrays, f \in MigrateArrays }
    \cup {NoBlob}

InitMigrate ==
    /\ platform = "linux"
    /\ store \in MigrateBlobs
    /\ windowsState = loadWindowsState(store)
    /\ backups = NoBackups
    /\ migrations = 0
    /\ wasRestarted = FALSE
    /\ settleNow = FALSE
    /\ Constructed

\* constructor line 145, and any later run of the same method
Migrate ==
    /\ migrations < MaxMigrations
    /\ windowsState' = migrateLegacyWindowState(windowsState)
    /\ thrown' = migrateThrows(windowsState)
    /\ migrations' = migrations + 1
    /\ UNCHANGED <<vetoes, lastUnload, dialogs, waiters, unlinked>>
    /\ UNCHANGED <<platform, store, lastClosedWindowState, WINDOWS, focusOrder,
                   quitRequested, pending, backups, mru, nextId, storeWrites, moves,
                   wasRestarted, settleNow, lastOpen>>

NextMigrate == Migrate

SpecMigrate == InitMigrate /\ [][NextMigrate]_vars

\* C1: for every stored blob, with or without the legacy openedFolders container
\* and the legacy workspacePath fields, a second run of migrateLegacyWindowState
\* leaves exactly the state the first run produced.
C1_MigrationIdempotent ==
    [][migrations >= 1 /\ migrations' = migrations + 1
         => windowsState' = windowsState /\ thrown' = thrown]_vars

\* a blob with both legacy shapes has been migrated twice
C1_Witness ==
    /\ migrations = 2
    /\ store.openedFoldersKind = "array" /\ Len(store.openedFolders) > 0
    /\ IsString(store.lastActiveWindow.workspacePath)
    /\ windowsState.openedWindows = SeqMap(store.openedFolders, migrateWorkspacePath)
    /\ windowsState.lastActiveWindow.folderPath = store.lastActiveWindow.workspacePath
    /\ windowsState.lastActiveWindow.workspacePath = Undef


\* C17 as stated: for every stored blob, absent and malformed ones included, the
\* constructor does not fail, and it leaves openedWindows an array.
C17_ConstructionNeverFails ==
    migrations >= 1 => ~thrown /\ windowsState.openedWindowsKind = "array"

-----------------------------------------------------------------------------
(* SpecRestore: doGetWindowsFromLastSession on the stored sessions *)

UiR == Ui("normal", 100, 100)

\* what the previous run can have stored as its last active window: nothing, a
\* folder (still there, gone, a file by now), a workspace (still there, gone, a
\* plain file by now, next to a folder), an empty window with and without backup
RestoreLastActive ==
    { NoState,
      WState(NoWorkspace, "/a", Undef, "/bk/a", UiR),
      WState(NoWorkspace, "/b/.", Undef, "/bk/b", UiR),
      WState(NoWorkspace, "/gone", Undef, "/bk/gone", UiR),
      WState(NoWorkspace, "/x", Undef, "/bk/x", UiR),
      WState(Ws("w1", "/w1.ws"), Undef, Undef, "/bk/w1", UiR),
      WState(Ws("w9", "/gone.ws"), Undef, Undef, "/bk/w9", UiR),
      WState(Ws("w8", "/x"), Undef, Undef, "/bk/w8", UiR),
      WState(Ws("w9", "/gone.ws"), "/a", Undef, "/bk/w9", UiR),
      WState(NoWorkspace, Undef, Undef, "/bk/e1", UiR),
      WState(NoWorkspace, Undef, Undef, Undef, UiR) }

RestoreOpened ==
    { <<>>,
      <<WState(NoWorkspace, "/b", Undef, "/bk/b", UiR)>>,
      <<NoState>>,
      <<WState(Ws("w1", "/w1.ws"), Undef, Undef, "/bk/w1", UiR),
        WState(NoWorkspace, "/gone", Undef, "/bk/gone", UiR),
        WState(NoWorkspace, Undef, Undef, "/bk/e2", UiR)>> }

RestoreBlobs ==
    { WindowsStateOf(last, NoState, "array", w, Undef, <<>>) :
        last \in RestoreLastActive, w \in RestoreOpened }

\* window.restoreWindows and the legacy window.reopenFolders, as the user can set them
RestoreSettings ==
    { WindowSettings("default", "off", r, o, "default", FALSE) :
        r \in {Undef, "one", "none", "all", "folders", "bogus"},
        o \in {Undef, "all", "none"} }

\* what one call of doGetWindowsFromLastSession was given and returned
RestoreCall(windowConfig, restoreWindows, threw, targets) ==
    [calls |-> 1, windowConfig |-> windowConfig, restoreWindows |-> restoreWindows,
     threw |-> threw, windowsToOpen |-> targets]

InitRestore ==
    /\ platform = "linux"
    /\ store \in RestoreBlobs
    /\ windowsState = migrateLegacyWindowState(loadWindowsState(store))
    /\ backups = NoBackups
    /\ migrations = 1
    /\ wasRestarted \in BOOLEAN
    /\ settleNow = FALSE
    /\ Constructed

\* getWindowsToOpen lines 646-648, for an open() call without paths
Restore(windowConfig) ==
    /\ lastOpen.calls = 0
    /\ LET restoreWindows == getRestoreWindowsSetting(wasRestarted, windowConfig)
           threw == restoreThrows(restoreWindows, windowsState)
       IN  /\ thrown' = threw
           /\ lastOpen' = RestoreCall(windowConfig, restoreWindows, threw,
                                      IF threw THEN <<>>
                                      ELSE doGetWindowsFromLastSession(restoreWindows,
                                                                       windowsState))
    /\ mru' = IF restoreThrows(getRestoreWindowsSetting(wasRestarted, windowConfig),
                               windowsState)
              THEN mru
              ELSE removeFromRecentlyOpened(mru,
                     notFound(sessionPathsParsed(
                                getRestoreWindowsSetting(wasRestarted, windowConfig),
                                windowsState)))
    /\ UNCHANGED <<vetoes, lastUnload, dialogs, waiters, unlinked>>
    /\ UNCHANGED <<platform, store, windowsState, lastClosedWindowState, WINDOWS,
                   focusOrder, quitRequested, pending, backups, nextId, storeWrites,
                   migrations, moves, wasRestarted, settleNow>>

NextRestore == \E windowConfig \in RestoreSettings : Restore(windowConfig)

SpecRestore == InitRestore /\ [][NextRestore]_vars

\* the call restored the session with the given mode
restoredWith(mode) ==
    /\ lastOpen.calls = 1
    /\ ~wasRestarted
    /\ lastOpen.restoreWindows = mode

\* C11: with the restore mode none and no restart after an update,
\* doGetWindowsFromLastSession returns exactly one target, and the target is empty:
\* no workspace, no folderPath, no filePath, no backupPath, whatever was stored.
C11_NoneRestoresOneEmpty ==
    /\ lastOpen.calls = 1 /\ ~wasRestarted
    /\ \/ lastOpen.windowConfig.restoreWindows = "none"
       \/ lastOpen.restoreWindows = "none"
    => /\ ~lastOpen.threw
       /\ Len(lastOpen.windowsToOpen) = 1
       /\ ~HasWorkspace(lastOpen.windowsToOpen[1].workspace)
       /\ ~Truthy(lastOpen.windowsToOpen[1].folderPath)
       /\ ~Truthy(lastOpen.windowsToOpen[1].filePath)
       /\ ~Truthy(lastOpen.windowsToOpen[1].backupPath)

\* a session with a workspace window, a last active folder that is still on disk
\* and an empty window with a backup was restored with the mode none
C11_Witness ==
    /\ restoredWith("none")
    /\ lastOpen.windowsToOpen = <<EmptyTarget>>
    /\ windowsState.lastActiveWindow.folderPath = "/a"
    /\ Len(windowsState.openedWindows) = 3

\* the one target the mode one has to return for the stored last active window
expectedOne(last) ==
    IF last.isNull THEN EmptyTarget
    ELSE IF HasWorkspace(last.workspace)
    THEN IF /\ statKind(normalize(last.workspace.configPath)) = "file"
            /\ resolveWorkspaceSync(normalize(last.workspace.configPath)) # Undef
         THEN Target(Ws(resolveWorkspaceSync(normalize(last.workspace.configPath)),
                        normalize(last.workspace.configPath)),
                     Undef, Undef, FALSE, Undef)
         ELSE EmptyTarget
    ELSE IF Truthy(last.folderPath)
    THEN IF statKind(normalize(last.folderPath)) = "folder"
         THEN Target(NoWorkspace, normalize(last.folderPath), Undef, FALSE, Undef)
         ELSE EmptyTarget
    ELSE IF Truthy(last.backupPath)
    THEN Target(NoWorkspace, Undef, Undef, FALSE, last.backupPath)
    ELSE EmptyTarget

\* C12: with the restore mode one, doGetWindowsFromLastSession returns exactly one
\* target: the workspace, the folder or the backup path of the stored last active
\* window if the workspace or folder still resolves on disk, and else (no last
\* active window, or a workspace or folder that resolves no more) the empty window.
C12_OneRestoresLastActiveOrEmpty ==
    lastOpen.calls = 1 /\ ~wasRestarted /\ lastOpen.restoreWindows = "one"
    => /\ ~lastOpen.threw
       /\ lastOpen.windowsToOpen = <<expectedOne(windowsState.lastActiveWindow)>>

\* the workspace of the last active window was deleted, and the mode one fell back
\* to one empty window
C12_Witness ==
    /\ restoredWith("one")
    /\ windowsState.lastActiveWindow.workspace.configPath = "/gone.ws"
    /\ ~Truthy(windowsState.lastActiveWindow.folderPath)
    /\ lastOpen.windowsToOpen = <<EmptyTarget>>

-----------------------------------------------------------------------------
(* SpecUnload: the unload events of windows that show an untitled workspace *)

\* lifecycleService fires onBeforeWindowUnload for a window that shows content;
\* res, target and saved are what the user and the disk answer if asked
BeforeWindowUnload(i, reason, request, res, target, saved) ==
    /\ getWindowById(i) # NoWindow
    /\ getWindowById(i).loaded /\ getWindowById(i).closing = Undef
    /\ lastUnload' = UnloadEvent(i, reason, request, openedWorkspace(getWindowById(i)),
                                 getWindowCount,
                                 onBeforeWindowUnload(getWindowById(i), reason,
                                                      getWindowCount, res, target, saved))
    /\ thrown' = FALSE
    /\ UNCHANGED <<platform, store, windowsState, lastClosedWindowState, WINDOWS,
                   focusOrder, quitRequested, pending, backups, mru, nextId, storeWrites,
                   migrations, moves, wasRestarted, settleNow, vetoes, lastOpen,
                   dialogs, waiters, unlinked>>

\* the user closes a window: lifecycleService.unload(window, CLOSE), or QUIT while
\* the application quits
CloseRequested(i, res, target, saved) ==
    BeforeWindowUnload(i, IF quitRequested THEN "QUIT" ELSE "CLOSE", NoRequest,
                       res, target, saved)

\* WindowsManager.reload, up to the event that lifecycleService.unload fires
reload(i, res, target, saved) ==
    BeforeWindowUnload(i, "RELOAD", NoRequest, res, target, saved)

\* the unload negotiation of a load into a window that shows content
\* (openInBrowserWindow line 1017)
LoadRequested(req, res, target, saved) ==
    /\ req \in pending
    /\ req.reason = "LOAD"
    /\ BeforeWindowUnload(req.win, "LOAD", req, res, target, saved)

\* the close that no handler vetoed goes on to onBeforeWindowClose
CloseProceeds(i) ==
    /\ lastUnload.win = i
    /\ lastUnload.reason \in {"CLOSE", "QUIT"}
    /\ ~lastUnload.handled.vetoed
    /\ BeforeWindowClose(i)

\* the negotiation of a load settles: with the veto of the handler, or of the window
LoadProceeds(req, veto) ==
    /\ req \in pending
    /\ getWindowById(req.win).loaded
         => /\ lastUnload.request = req
            /\ lastUnload.handled.vetoed => veto
    /\ UnloadDone(req, veto)

UnloadStartups ==
    { Startup("linux", NoBlob, NoBackups, FALSE),
      Startup("win32", NoBlob, NoBackups, FALSE),
      Startup("darwin", NoBlob, NoBackups, FALSE) }

InitUnload == InitFrom(UnloadStartups)

\* the untitled workspace or a folder at startup; later a folder into the last
\* active window, and a folder into a window of its own
UnloadStartupCalls == {CliOpen(<<"/u.ws">>), CliOpen(<<"/a">>)}
UnloadLaterCalls == {ApiOpen("API", <<"/b">>, FALSE, FALSE), ApiOpen("API", <<"/b">>, TRUE, FALSE)}
UnloadSettings == {SettingsDefault}

ConfirmResults == {"SAVE", "DONT_SAVE", "CANCEL"}
SaveTargets == {Undef, "/saved.ws"}

NextUnload ==
    \/ OpenCall(UnloadStartupCalls, UnloadLaterCalls, UnloadSettings, MaxUnloadWindows)
    \/ \E req \in pending, veto \in BOOLEAN : LoadProceeds(req, veto)
    \/ \E req \in pending, res \in ConfirmResults, target \in SaveTargets,
          saved \in BOOLEAN : LoadRequested(req, res, target, saved)
    \/ \E i \in WindowIds, res \in ConfirmResults, target \in SaveTargets,
          saved \in BOOLEAN : CloseRequested(i, res, target, saved)
    \/ \E i \in WindowIds, res \in ConfirmResults, target \in SaveTargets,
          saved \in BOOLEAN : reload(i, res, target, saved)
    \/ \E i \in WindowIds : CloseProceeds(i)
    \/ \E i \in WindowIds : onWindowClosed(i)
    \/ Quit

SpecUnload == InitUnload /\ [][NextUnload]_vars

\* the last unload event was for a window that showed an untitled workspace
unloadsUntitled ==
    /\ lastUnload.reason # Undef
    /\ HasWorkspace(lastUnload.workspace) /\ isUntitledWorkspace(lastUnload.workspace)

\* C14: in the prompt the unload is vetoed exactly when the user chooses Cancel, or
\* chooses Save and cancels the save dialog; it is allowed on Don't Save, and on
\* Save with a target whether the save succeeds or fails.
C14_VetoExactlyOnCancel ==
    lastUnload.handled.prompted
      => /\ lastUnload.handled.res \in ConfirmResults
         /\ lastUnload.handled.vetoed
              <=> \/ lastUnload.handled.res = "CANCEL"
                  \/ lastUnload.handled.res = "SAVE" /\ ~Truthy(lastUnload.handled.target)
         /\ lastUnload.handled.veto # "none"

\* the user chose Save and a target, the save failed, and the unload was allowed
C14_Witness ==
    /\ unloadsUntitled /\ lastUnload.handled.prompted
    /\ lastUnload.handled.res = "SAVE" /\ lastUnload.handled.target = "/saved.ws"
    /\ lastUnload.handled.saveWorkspace = "rejected"
    /\ ~lastUnload.handled.vetoed

\* the close of the last window on Windows and Linux, which quits the application
lastWindowClose ==
    ~isMacintosh /\ lastUnload.reason = "CLOSE" /\ lastUnload.windowCount = 1

\* C15 as stated: a window that shows an untitled workspace and is about to close or
\* to be reloaded, other than the last window closing on Windows and Linux, gets
\* the prompt before the unload goes on.
C15_PromptOnCloseOrReload ==
    unloadsUntitled /\ lastUnload.reason \in {"CLOSE", "RELOAD"} /\ ~lastWindowClose
      => lastUnload.handled.prompted

\* C15, amended: a window that shows an untitled workspace gets the prompt, before
\* the unload goes on, exactly when it is about to close (other than the last window
\* on Windows and Linux) or to load other content; a reload and a quit of the
\* application do not ask.
C15_PromptOnCloseOrLoad ==
    unloadsUntitled
      => (lastUnload.handled.prompted
            <=> \/ lastUnload.reason = "CLOSE" /\ ~lastWindowClose
                \/ lastUnload.reason = "LOAD")

\* on Linux the only window, showing an untitled workspace, was asked to load a
\* folder, and the prompt was shown
C15_Witness ==
    /\ unloadsUntitled /\ isLinux
    /\ lastUnload.reason = "LOAD" /\ lastUnload.windowCount = 1
    /\ Truthy(lastUnload.request.configuration.folderPath)
    /\ lastUnload.handled.prompted

\* C16: on Windows and Linux the close of the only live window, showing an untitled
\* workspace, shows no prompt, issues no veto and does not delete the workspace.
C16_LastWindowCloseNotAsked ==
    unloadsUntitled /\ lastWindowClose
      => /\ ~lastUnload.handled.prompted
         /\ lastUnload.handled.veto = "none" /\ ~lastUnload.handled.vetoed
         /\ ~HasWorkspace(lastUnload.handled.deleted)

\* on Linux the only window, showing an untitled workspace, was closed unasked and
\* has gone on to the close handler
C16_Witness ==
    /\ unloadsUntitled /\ lastWindowClose /\ isLinux
    /\ ~lastUnload.handled.prompted
    /\ getWindowCount = 1
    /\ getWindowById(lastUnload.win).closing = "CLOSE"

-----------------------------------------------------------------------------
(* SpecClose: the close of extension development hosts and extension test hosts *)

\* open() calls of an extension test run, with and without a development path
CliTests(args) ==
    OpenConfig("CLI", Cli(args, "/ext", "/ext/test", FALSE), <<>>, FALSE, FALSE,
               FALSE, FALSE, FALSE, FALSE)
CliTestsOnly(args) ==
    OpenConfig("CLI", Cli(args, Undef, "/ext/test", FALSE), <<>>, FALSE, FALSE,
               FALSE, FALSE, FALSE, FALSE)

CloseStartups ==
    { Startup("linux", BlobFolders, NoBackups, FALSE),
      Startup("darwin", BlobFolders, NoBackups, FALSE) }

InitClose == InitFrom(CloseStartups)

CloseStartupCalls ==
    { CliOpen(<<"/a">>), CliDevelopment(<<"/a">>), CliTests(<<"/a">>), CliTestsOnly(<<"/a">>) }
CloseLaterCalls == {ApiOpen("API", <<"/b">>, TRUE, FALSE)}
CloseSettings == {SettingsDefault}

NextClose ==
    \/ \E req \in pending : UnloadDone(req, FALSE)
    \/ \E i \in WindowIds : onWindowClosed(i)
    \/ pending = {} /\ OpenCall(CloseStartupCalls, CloseLaterCalls, CloseSettings,
                                MaxSessionWindows)
    \/ \E i \in WindowIds : pending = {} /\ BeforeWindowClose(i)
    \/ pending = {} /\ Quit
    \/ \E i \in WindowIds, ui \in UiMoves : pending = {} /\ Move(i, ui)

SpecClose == InitClose /\ [][NextClose]_vars

\* the window w closes in this step, and the application is not quitting
closesOutsideQuit(w) ==
    /\ w.closing = Undef
    /\ \E k \in 1..Len(WINDOWS') : WINDOWS'[k].id = w.id /\ WINDOWS'[k].closing = "CLOSE"

\* C24 as stated: when a window closes outside a quit, the snapshot of an extension
\* development host that is no test host replaces lastPluginDevelopmentHostWindow
\* and no openedWindows entry changes; for an extension test host neither changes;
\* and the snapshot of the only live window becomes the last closed window state.
C24_CloseOfHosts ==
    [][\A k \in 1..Len(WINDOWS) :
         closesOutsideQuit(WINDOWS[k])
           => /\ (isExtensionDevelopmentHost(WINDOWS[k]) /\ ~WINDOWS[k].isExtensionTestHost)
                   => /\ windowsState'.lastPluginDevelopmentHostWindow
                           = toWindowState(WINDOWS[k])
                      /\ windowsState'.openedWindows = windowsState.openedWindows
              /\ WINDOWS[k].isExtensionTestHost
                   => /\ windowsState'.lastPluginDevelopmentHostWindow
                           = windowsState.lastPluginDevelopmentHostWindow
                      /\ windowsState'.openedWindows = windowsState.openedWindows
              /\ Len(WINDOWS) = 1 => lastClosedWindowState' = toWindowState(WINDOWS[k])]_vars

\* the stored entry o is for the workspace or the folder that the window w shows
sameTargetStored(o, w) ==
    \/ /\ HasWorkspace(openedWorkspace(w)) /\ HasWorkspace(o.workspace)
       /\ o.workspace.id = openedWorkspace(w).id
    \/ /\ Truthy(openedFolderPath(w)) /\ isEqual(o.folderPath, openedFolderPath(w), ~isLinux)

\* C24, amended: what is said of an extension test host holds for one that is an
\* extension development host as well.  A test host without a development path
\* closes as an ordinary window does: lastPluginDevelopmentHostWindow stays, and the
\* openedWindows entries for its workspace or folder take its UI state.
C24_CloseOfDevelopmentHosts ==
    [][\A k \in 1..Len(WINDOWS) :
         closesOutsideQuit(WINDOWS[k])
           => /\ (isExtensionDevelopmentHost(WINDOWS[k]) /\ ~WINDOWS[k].isExtensionTestHost)
                   => /\ windowsState'.lastPluginDevelopmentHostWindow
                           = toWindowState(WINDOWS[k])
                      /\ windowsState'.openedWindows = windowsState.openedWindows
              /\ (isExtensionDevelopmentHost(WINDOWS[k]) /\ WINDOWS[k].isExtensionTestHost)
                   => /\ windowsState'.lastPluginDevelopmentHostWindow
                           = windowsState.lastPluginDevelopmentHostWindow
                      /\ windowsState'.openedWindows = windowsState.openedWindows
              /\ (~isExtensionDevelopmentHost(WINDOWS[k]) /\ WINDOWS[k].isExtensionTestHost)
                   => /\ windowsState'.lastPluginDevelopmentHostWindow
                           = windowsState.lastPluginDevelopmentHostWindow
                      /\ Len(windowsState'.openedWindows) = Len(windowsState.openedWindows)
                      /\ \A j \in 1..Len(windowsState.openedWindows) :
                           windowsState'.openedWindows[j] =
                             IF sameTargetStored(windowsState.openedWindows[j], WINDOWS[k])
                             THEN [windowsState.openedWindows[j] EXCEPT
                                     !.uiState = serializeWindowState(WINDOWS[k])]
                             ELSE windowsState.openedWindows[j]
              /\ Len(WINDOWS) = 1 => lastClosedWindowState' = toWindowState(WINDOWS[k])]_vars

\* the only window, a test host that is a development host as well, has closed
\* outside a quit: its snapshot is the last closed window state, and the stored
\* development host and the stored entry of its folder are as they were
C24_Witness ==
    /\ ~quitRequested
    /\ Len(WINDOWS) = 1 /\ WINDOWS[1].closing = "CLOSE"
    /\ isExtensionDevelopmentHost(WINDOWS[1]) /\ WINDOWS[1].isExtensionTestHost
    /\ openedFolderPath(WINDOWS[1]) = "/a"
    /\ lastClosedWindowState = toWindowState(WINDOWS[1])
    /\ windowsState.lastPluginDevelopmentHostWindow.isNull
    /\ \E j \in 1..Len(windowsState.openedWindows) :
         /\ sameTargetStored(windowsState.openedWindows[j], WINDOWS[1])
         /\ windowsState.openedWindows[j].uiState # serializeWindowState(WINDOWS[1])

-----------------------------------------------------------------------------
(* SpecWait: open() calls of 'code --wait' and the windows they wait for *)

\* open() calls with --wait: the marker file is the caller's
OpenWait(context, args, paths, marker, forceNew) ==
    OpenConfig(context, [Cli(args, Undef, Undef, FALSE) EXCEPT !.wait = TRUE,
                                                             !.waitMarkerFilePath = marker],
               paths, FALSE, FALSE, forceNew, FALSE, FALSE, FALSE)

WaitStartups == {Startup("linux", NoBlob, NoBackups, FALSE)}

InitWait == InitFrom(WaitStartups)

\* a file, a folder, two folders
WaitStartupCalls ==
    { OpenWait("CLI", <<"/x">>, <<>>, "/m1", FALSE),
      OpenWait("CLI", <<"/a">>, <<>>, "/m1", FALSE),
      OpenWait("CLI", <<"/a", "/b">>, <<>>, "/m1", FALSE),
      CliOpen(<<"/a">>) }

\* a file for a window of its own, a file for the window on its folder, a path
\* that is gone, two folders, no marker file, a call that is not the CLI's
WaitLaterCalls ==
    { OpenWait("CLI", <<"/y">>, <<>>, "/m2", TRUE),
      OpenWait("CLI", <<"/a/f">>, <<>>, "/m2", FALSE),
      OpenWait("CLI", <<>>, <<"/missing">>, "/m2", FALSE),
      OpenWait("CLI", <<"/a", "/b">>, <<>>, "/m2", FALSE),
      OpenWait("CLI", <<"/y">>, <<>>, Undef, TRUE),
      OpenWait("API", <<>>, <<"/y">>, "/m2", TRUE),
      ApiOpen("API", <<"/b">>, TRUE, FALSE) }

NextWait ==
    \/ \E req \in pending : UnloadDone(req, FALSE)
    \/ \E i \in WindowIds : onWindowClosed(i)
    \/ pending = {} /\ OpenCall(WaitStartupCalls, WaitLaterCalls, CloseSettings, MaxWindows)
    \/ \E i \in WindowIds : pending = {} /\ BeforeWindowClose(i)
    \/ pending = {} /\ Quit

SpecWait == InitWait /\ [][NextWait]_vars


\* message boxes open at one time
MaxDialogs == 2

\* the buttons of the two message boxes, lines 1415 and 1438
Buttons(error) == IF error = "UNRESPONSIVE" THEN 0..2 ELSE 0..1

\* a message box of onWindowError: its window, the error, and the button that
\* the user is going to press
Dialog(i, error, result) == [win |-> i, error |-> error, result |-> result]

\* a callback that does not look for the native window
dialogCallbackUnguarded(codeWindow, error, result) ==
    IF error = "UNRESPONSIVE"
    THEN IF result = 0 THEN "reload" ELSE IF result = 2 THEN "close" ELSE "nothing"
    ELSE IF result = 0 THEN "reload" ELSE IF result = 1 THEN "close" ELSE "nothing"

\* onWindowError lines 1419-1430 and 1442-1453: what the callback of the message
\* box does; codeWindow is NoWindow when the window was disposed of (codeWindow.win
\* is unset)
dialogCallback(codeWindow, error, result) ==
    IF codeWindow = NoWindow THEN "return"
    ELSE IF error = "UNRESPONSIVE"
    THEN IF result = 0 THEN "reload" ELSE IF result = 2 THEN "close" ELSE "nothing"
    ELSE IF result = 0 THEN "reload" ELSE IF result = 1 THEN "close" ELSE "nothing"

\* onWindowError lines 1407-1417 and 1434-1441: the 'crashed' or 'unresponsive'
\* event of a live window shows the message box
WindowError(i, error, result) ==
    /\ getWindowById(i) # NoWindow
    /\ Cardinality(dialogs) < MaxDialogs
    /\ Dialog(i, error, result) \notin dialogs
    /\ dialogs' = dialogs \cup {Dialog(i, error, result)}
    /\ thrown' = FALSE
    /\ UNCHANGED <<platform, store, windowsState, lastClosedWindowState, WINDOWS,
                   focusOrder, quitRequested, pending, backups, mru, nextId, storeWrites,
                   migrations, moves, wasRestarted, settleNow, vetoes, lastOpen,
                   lastUnload, waiters, unlinked>>

\* the callback of the message box, lines 1419-1430 and 1442-1453.  reload() is
\* the window's own and changes nothing that the manager holds; destroy() fires
\* 'closed' and no 'close', so that onWindowClosed runs with it.  A reload or a
\* destroy of a window that was disposed of throws.
DialogResult(d) ==
    LET codeWindow == getWindowById(d.win)
        does == dialogCallback(codeWindow, d.error, d.result)
    IN  /\ d \in dialogs
        /\ dialogs' = dialogs \ {d}
        /\ thrown' = (does \in {"reload", "close"} /\ codeWindow = NoWindow)
        /\ IF does = "close" /\ codeWindow # NoWindow
           THEN /\ onBeforeWindowClose(codeWindow)
                /\ windowClosed(d.win)
           ELSE UNCHANGED <<windowsState, lastClosedWindowState, WINDOWS, focusOrder,
                            pending, waiters, unlinked>>
        /\ UNCHANGED <<platform, store, quitRequested, backups, mru, nextId, storeWrites,
                       migrations, moves, wasRestarted, settleNow, vetoes, lastOpen,
                       lastUnload>>

WindowErrors == {"CRASHED", "UNRESPONSIVE"}

NextError ==
    \/ \E req \in pending : UnloadDone(req, FALSE)
    \/ \E i \in WindowIds : onWindowClosed(i)
    \/ pending = {} /\ OpenCall(CloseStartupCalls, CloseLaterCalls, CloseSettings,
                                MaxSessionWindows)
    \/ \E i \in WindowIds : pending = {} /\ BeforeWindowClose(i)
    \/ pending = {} /\ Quit
    \/ \E i \in WindowIds, error \in WindowErrors : \E result \in Buttons(error) :
         pending = {} /\ WindowError(i, error, result)
    \/ \E d \in dialogs : DialogResult(d)

SpecError == InitClose /\ [][NextError]_vars

\* the ids of the live windows
liveIds == {WINDOWS[k].id : k \in 1..Len(WINDOWS)}

\* the callback of d leaves everything that the manager holds as it is
callbackChangesNothing ==
    /\ UNCHANGED <<WINDOWS, windowsState, lastClosedWindowState, focusOrder, pending,
                   store, quitRequested, waiters, unlinked>>
    /\ ~thrown'

\* C25: the callback of a crash or unresponsive message box whose window was torn
\* down meanwhile does nothing (no reload, no close bookkeeping, no destroy).  For
\* a window that still exists, Keep Waiting changes nothing, and Close runs the
\* bookkeeping of onBeforeWindowClose and then destroys the window, which leaves
\* the live windows in that step; no callback acts on a window that is gone.
C25_DialogAfterTeardownIgnored ==
    [][\A d \in dialogs \ dialogs' :
         LET w == getWindowById(d.win)
             isClose == d.result = (IF d.error = "UNRESPONSIVE" THEN 2 ELSE 1)
             isWait == d.error = "UNRESPONSIVE" /\ d.result = 1
         IN  /\ w = NoWindow => callbackChangesNothing
             /\ (w # NoWindow /\ isWait) => callbackChangesNothing
             /\ (w # NoWindow /\ isClose)
                  => /\ windowsState' = IF quitRequested THEN windowsState
                                        ELSE closeWindowsState(windowsState, w)
                     /\ lastClosedWindowState' =
                          IF ~quitRequested /\ Len(WINDOWS) = 1 THEN toWindowState(w)
                          ELSE lastClosedWindowState
                     /\ liveIds' = liveIds \ {d.win}
                     /\ ~thrown']_vars

\* a message box of window 1 is still open, and its button is Close, while the
\* window has closed; another window is live
C25_Witness ==
    /\ \E d \in dialogs : d.win = 1 /\ d.error = "CRASHED" /\ d.result = 1
    /\ 1 \notin liveIds
    /\ Len(WINDOWS) = 1
    /\ ~quitRequested

-----------------------------------------------------------------------------
(* Close and quit: the claims checked under Spec *)

\* the step is the close handler running for window i
closeStep(i) ==
    /\ getWindowById(i) # NoWindow
    /\ getWindowById(i).closing = Undef
    /\ \E k \in 1..Len(WINDOWS') : WINDOWS'[k].id = i /\ WINDOWS'[k].closing # Undef

\* the step is the quit handler
quitStep == storeWrites' = storeWrites + 1

\* C2: while a quit is requested, no run of the close handler modifies the session
\* state (lastActiveWindow, lastPluginDevelopmentHostWindow, the openedWindows
\* entries), the last-closed snapshot or the store.
C2_CloseWhileQuitting ==
    [][\A i \in WindowIds :
         quitRequested /\ closeStep(i)
           => /\ windowsState' = windowsState
              /\ lastClosedWindowState' = lastClosedWindowState
              /\ store' = store]_vars

\* a window closed while the application quits, and outside a quit its close would
\* have changed the session state
C2_Witness ==
    /\ quitRequested
    /\ \E k \in 1..Len(WINDOWS) :
         /\ WINDOWS[k].closing = "QUIT"
         /\ closeWindowsState(windowsState, WINDOWS[k]) # windowsState

\* C3 as stated: in the order last-window close, then quit, the quit handler comes
\* second and changes neither the session state nor the store.
C3_SecondHandlerNoOp ==
    [][quitStep /\ Len(WINDOWS) = 0 /\ ~lastClosedWindowState.isNull
         => store' = store /\ windowsState' = windowsState]_vars

\* C3, amended: after the quit handler, the close handlers change neither the
\* session state nor the store; after the close of the last window, the quit
\* handler leaves the session state alone and writes the store, with the snapshot
\* the close handler took as lastActiveWindow.
C3_QuitAndCloseOrders ==
    [][/\ \A i \in WindowIds :
            quitRequested /\ closeStep(i) => store' = store /\ windowsState' = windowsState
       /\ quitStep /\ Len(WINDOWS) = 0 /\ ~lastClosedWindowState.isNull
            => /\ windowsState' = windowsState
               /\ store'.lastActiveWindow = lastClosedWindowState
               /\ store'.openedWindows = <<>>]_vars

\* the last window has closed, and then the quit handler persisted its snapshot
C3_Witness ==
    /\ ~isMacintosh
    /\ Len(WINDOWS) = 0
    /\ quitRequested /\ storeWrites = 1
    /\ ~lastClosedWindowState.isNull
    /\ store.lastActiveWindow = lastClosedWindowState

\* the entry o of openedWindows refers to the folder or the workspace of window w
sameTarget(o, w) ==
    \/ /\ HasWorkspace(openedWorkspace(w)) /\ HasWorkspace(o.workspace)
       /\ o.workspace.id = openedWorkspace(w).id
    \/ /\ Truthy(openedFolderPath(w)) /\ Truthy(o.folderPath)
       /\ IF isLinux THEN o.folderPath = openedFolderPath(w)
          ELSE toLowerCase(o.folderPath) = toLowerCase(openedFolderPath(w))

\* C4: outside a quit, the close of a window that is no extension development host
\* and shows a folder or a workspace sets the uiState of every openedWindows entry
\* on the same folder (case rules of the platform) or workspace id to the UI state
\* of the window, and leaves the other entries as they are.
C4_CloseUpdatesMatching ==
    [][\A i \in WindowIds :
         /\ ~quitRequested /\ closeStep(i)
         /\ ~isExtensionDevelopmentHost(getWindowById(i))
         /\ HasWorkspace(openedWorkspace(getWindowById(i)))
            \/ Truthy(openedFolderPath(getWindowById(i)))
         => /\ Len(windowsState'.openedWindows) = Len(windowsState.openedWindows)
            /\ \A k \in 1..Len(windowsState.openedWindows) :
                 windowsState'.openedWindows[k] =
                   IF sameTarget(windowsState.openedWindows[k], getWindowById(i))
                   THEN [windowsState.openedWindows[k] EXCEPT
                           !.uiState = serializeWindowState(getWindowById(i))]
                   ELSE windowsState.openedWindows[k]]_vars

\* a window was moved and closed; two entries on its folder took its UI state and
\* the entry of another target kept its own
C4_Witness ==
    \E k \in 1..Len(WINDOWS) :
      /\ WINDOWS[k].closing = "CLOSE"
      /\ WINDOWS[k].uiState = UiMoved
      /\ \E a, b, c \in 1..Len(windowsState.openedWindows) :
           /\ a # b
           /\ sameTarget(windowsState.openedWindows[a], WINDOWS[k])
           /\ sameTarget(windowsState.openedWindows[b], WINDOWS[k])
           /\ windowsState.openedWindows[a].uiState = UiMoved
           /\ windowsState.openedWindows[b].uiState = UiMoved
           /\ store.openedWindows[a].uiState # UiMoved
           /\ store.openedWindows[b].uiState # UiMoved
           /\ ~sameTarget(windowsState.openedWindows[c], WINDOWS[k])
           /\ windowsState.openedWindows[c] = store.openedWindows[c]


-----------------------------------------------------------------------------
(* Placement: the claims checked under SpecOpen *)

\* the targets of the last open() call that are existing files, paths to create,
\* folders, workspaces
existingFiles ==
    SelectSeq(lastOpen.windowsToOpen, LAMBDA v : Truthy(v.filePath) /\ ~v.createFilePath)
filesCreated ==
    SelectSeq(lastOpen.windowsToOpen, LAMBDA v : Truthy(v.filePath) /\ v.createFilePath)
folderTargets ==
    SelectSeq(lastOpen.windowsToOpen, LAMBDA v : Truthy(v.folderPath) /\ ~Truthy(v.filePath))
workspaceTargets ==
    SelectSeq(lastOpen.windowsToOpen, LAMBDA v : HasWorkspace(v.workspace))

\* C5 as stated: every open() call results in at least one window.
C5_AtLeastOneWindow ==
    lastOpen.calls > 0 => Len(lastOpen.used) >= 1

\* the delivery d created a window for the folder or workspace target v
createdFor(d, v) ==
    /\ d.created /\ d.how = "load"
    /\ IF HasWorkspace(v.workspace) THEN d.workspace.id = v.workspace.id
       ELSE Truthy(d.folderPath) /\ isEqual(d.folderPath, v.folderPath, ~isLinux)

\* a window that was live when the last open() call was made shows the target v
shownBefore(v) ==
    IF HasWorkspace(v.workspace)
    THEN findWindowOnWorkspace(lastOpen.before.windows, v.workspace) # NoWindow
    ELSE findWindowOnFolder(lastOpen.before.windows, v.folderPath) # NoWindow

content(windows, i) ==
    LET w == First(SelectSeq(windows, LAMBDA v : v.id = i), NoWindow)
    IN  [live |-> w # NoWindow, loaded |-> w.loaded, config |-> w.config]

\* C7: the content of a window changes, and the backup registry grows, only when an
\* unload negotiation for the window settles without veto (for a window created by
\* the call, not ready yet, that may be at once); the window then shows the
\* configuration of that request. A veto changes neither a window nor the registry,
\* and a call that leaves a negotiation pending changes the content of no window.
C7_LoadOnlyAfterUnload ==
    [][/\ \A i \in WindowIds :
            /\ content(WINDOWS, i).live
            /\ content(WINDOWS', i) # content(WINDOWS, i)
            => \E req \in pending \ pending' :
                 /\ req.win = i
                 /\ vetoes' = vetoes
                 /\ content(WINDOWS', i).config =
                      registerBackup(backups, req.configuration,
                                     req.emptyWindowBackupFolder).configuration
       /\ \A i \in WindowIds :
            /\ ~content(WINDOWS, i).live
            /\ content(WINDOWS', i).loaded
            => \E k \in 1..Len(lastOpen'.deliveries) :
                 /\ lastOpen'.calls = lastOpen.calls + 1
                 /\ lastOpen'.deliveries[k].win = i
                 /\ lastOpen'.deliveries[k].created /\ lastOpen'.deliveries[k].settled
       /\ backups' # backups
            => \/ \E req \in pending \ pending' : vetoes' = vetoes
               \/ \E k \in 1..Len(lastOpen'.deliveries) :
                    /\ lastOpen'.calls = lastOpen.calls + 1
                    /\ lastOpen'.deliveries[k].created /\ lastOpen'.deliveries[k].settled
       /\ Len(vetoes') > Len(vetoes) => WINDOWS' = WINDOWS /\ backups' = backups]_vars

\* a window vetoed the unload for the folder an open() call asked it to load, and
\* shows what it showed before
C7_Witness ==
    \E k \in 1..Len(lastOpen.deliveries) :
      LET d == lastOpen.deliveries[k]
      IN  /\ d.how = "load" /\ ~d.created /\ Truthy(d.folderPath)
          /\ d.win \in Range(vetoes)
          /\ content(WINDOWS, d.win).loaded
          /\ content(WINDOWS, d.win) = content(lastOpen.before.windows, d.win)
          /\ content(WINDOWS, d.win).config.folderPath # d.folderPath

\* C8 as stated: after an open() call whose only request went to an existing window
\* that vetoed the unload, the windows, the backup registry, the recently opened
\* list and the session state are what they were before the call.
C8_VetoedOpenNoMutation ==
    /\ lastOpen.calls > 0 /\ lastOpen.before.pending = {} /\ pending = {}
    /\ Len(lastOpen.deliveries) = 1
    /\ lastOpen.deliveries[1].how = "load" /\ ~lastOpen.deliveries[1].created
    /\ vetoes = <<lastOpen.deliveries[1].win>>
    => /\ WINDOWS = lastOpen.before.windows
       /\ backups = lastOpen.before.backups
       /\ mru = lastOpen.before.mru
       /\ windowsState = lastOpen.before.windowsState

\* the files the windows of the last open() call were handed
withDiff == {k \in 1..Len(lastOpen.deliveries) : lastOpen.deliveries[k].filesToDiff # <<>>}
withFiles ==
    {k \in 1..Len(lastOpen.deliveries) :
       \/ lastOpen.deliveries[k].filesToOpen # <<>>
       \/ lastOpen.deliveries[k].filesToCreate # <<>>}
filesOf(targets) == SeqMap(targets, LAMBDA v : FileOf(v.filePath, v.createFilePath))

\* C9 as stated: diffMode with two resolved file targets gives a single window that
\* has the two files to diff, and nothing to open or to create.
C9_DiffSingleWindow ==
    /\ lastOpen.calls > 0 /\ lastOpen.openConfig.diffMode
    /\ Len(existingFiles) + Len(filesCreated) = 2
    => /\ Len(lastOpen.used) = 1
       /\ \E k \in withDiff :
            /\ lastOpen.deliveries[k].win = lastOpen.used[1]
            /\ Len(lastOpen.deliveries[k].filesToDiff) = 2
       /\ withFiles = {}

\* C9, amended: diffMode with exactly two targets that are existing files hands the
\* two files, as filesToDiff, to exactly one used window, and hands no window a file
\* to open or to create; that window is the only one used when the call has no
\* folder or workspace target and is not the startup call, which may restore windows.
C9_DiffTwoExistingFiles ==
    /\ lastOpen.calls > 0 /\ lastOpen.openConfig.diffMode
    /\ Len(existingFiles) = 2
    => /\ Cardinality(withDiff) = 1
       /\ \A k \in withDiff :
            /\ lastOpen.deliveries[k].filesToDiff = filesOf(existingFiles)
            /\ lastOpen.deliveries[k].win \in Range(lastOpen.used)
       /\ withFiles = {}
       /\ Len(folderTargets) = 0 /\ Len(workspaceTargets) = 0
          /\ ~lastOpen.openConfig.initialStartup
          => Len(lastOpen.used) = 1

\* two existing files went to one window to diff
C9_Witness ==
    /\ lastOpen.calls > 0 /\ lastOpen.openConfig.diffMode
    /\ Len(existingFiles) = 2 /\ Len(lastOpen.used) = 1
    /\ \E k \in withDiff :
         /\ lastOpen.deliveries[k].win = lastOpen.used[1]
         /\ lastOpen.deliveries[k].filesToDiff = filesOf(existingFiles)

\* C10 as stated: diffMode with a number of resolved file targets (existing files and
\* paths to create) other than two hands no window files to diff.
C10_NoDiffUnlessTwoResolved ==
    /\ lastOpen.calls > 0 /\ lastOpen.openConfig.diffMode
    /\ Len(existingFiles) + Len(filesCreated) # 2
    => withDiff = {}

\* C10, amended: diffMode with a number of existing files other than two hands no
\* window files to diff; the existing files are handed over to open and the missing
\* ones to create, to one window.
C10_NoDiffUnlessTwo ==
    /\ lastOpen.calls > 0 /\ lastOpen.openConfig.diffMode
    /\ Len(existingFiles) # 2
    => /\ withDiff = {}
       /\ lastOpen.files = [toOpen |-> filesOf(existingFiles),
                            toCreate |-> filesOf(filesCreated), toDiff |-> <<>>]
       /\ Len(existingFiles) + Len(filesCreated) > 0
          => /\ Cardinality(withFiles) = 1
             /\ \A k \in withFiles :
                  /\ lastOpen.deliveries[k].filesToOpen = filesOf(existingFiles)
                  /\ lastOpen.deliveries[k].filesToCreate = filesOf(filesCreated)

\* three existing files given to --diff were opened in one window
C10_Witness ==
    /\ lastOpen.calls > 0 /\ lastOpen.openConfig.diffMode
    /\ Len(existingFiles) = 3
    /\ \E k \in withFiles : lastOpen.deliveries[k].filesToOpen = filesOf(existingFiles)
    /\ withDiff = {}

\* the window that the delivery d of the open() call of this step has created, and
\* the windows that were live when it was created
createdWindow(d) == First(SelectSeq(WINDOWS', LAMBDA w : w.id = d.win), NoWindow)
liveBefore(d) == SelectSeq(WINDOWS', LAMBDA w : w.id < d.win)

\* C13 as stated: a window created while a window is open has an origin (x, y) that
\* differs from the origin of every window that is open, for every setting of
\* newWindowDimensions and every path of the stored-state lookup.
C13_NewWindowNeverOverlaps ==
    [][lastOpen'.calls = lastOpen.calls + 1
         => \A k \in 1..Len(lastOpen'.deliveries) :
              lastOpen'.deliveries[k].created
                => \A w \in Range(liveBefore(lastOpen'.deliveries[k])) :
                     getBounds(w) # getBounds(createdWindow(lastOpen'.deliveries[k]))]_vars

\* C13, amended: a window created while a window is open, whose state comes from no
\* stored state and under a newWindowDimensions that is none of maximized,
\* fullscreen and inherit, differs in x and in y from every window that is open.
\* A state taken from the stored session, or shaped by one of the three settings,
\* is used as it is and may coincide with the origin of a window.
C13_DefaultStateNeverOverlaps ==
    [][lastOpen'.calls = lastOpen.calls + 1
         => \A k \in 1..Len(lastOpen'.deliveries) :
              (/\ lastOpen'.deliveries[k].created
               /\ lastOpen'.deliveries[k].hasDefaultState
               /\ lastOpen'.windowConfig.newWindowDimensions
                     \notin {"maximized", "fullscreen", "inherit"})
                => \A w \in Range(liveBefore(lastOpen'.deliveries[k])) :
                     /\ getBounds(w).x # getBounds(createdWindow(lastOpen'.deliveries[k])).x
                     /\ getBounds(w).y # getBounds(createdWindow(lastOpen'.deliveries[k])).y]_vars

\* the last open() call created a third window from no stored state, and the two
\* live windows made ensureNoOverlap move it twice
C13_Witness ==
    /\ lastOpen.calls > 0
    /\ lastOpen.windowConfig.newWindowDimensions = "default"
    /\ \E k \in 1..Len(lastOpen.deliveries), i \in 1..Len(WINDOWS) :
         /\ lastOpen.deliveries[k].created /\ lastOpen.deliveries[k].hasDefaultState
         /\ WINDOWS[i].id = lastOpen.deliveries[k].win
         /\ Len(SelectSeq(WINDOWS, LAMBDA w : w.id < WINDOWS[i].id)) >= 1
         /\ getBounds(WINDOWS[i]).x
              = (DisplayWidth \div 2) - (DefaultWidth \div 2) + Nudge

\* the delivery d consumed files, or placed a folder or a workspace
placed(d) ==
    \/ Len(d.filesToOpen) + Len(d.filesToCreate) + Len(d.filesToDiff) > 0
    \/ HasWorkspace(d.workspace) \/ Truthy(d.folderPath)

\* C18 as stated: within one open() call, once a placement has consumed files or
\* placed a folder or workspace, every later placement goes into a new window, and
\* no window is chosen by more than one placement step.
C18_LaterPlacementsInNewWindows ==
    lastOpen.calls > 0
      => \A i, j \in 1..Len(lastOpen.deliveries) :
           i < j => /\ placed(lastOpen.deliveries[i]) => lastOpen.deliveries[j].created
                    /\ lastOpen.deliveries[i].step # lastOpen.deliveries[j].step
                         => lastOpen.deliveries[i].win # lastOpen.deliveries[j].win

\* what open() has pending from the backups and the last session when the last call
\* was made: open lines 316-346
restoring ==
    /\ lastOpen.openConfig.initialStartup
    /\ ~Truthy(lastOpen.openConfig.cli.extensionDevelopmentPath)
foldersToRestore == IF restoring THEN lastOpen.before.backups.folders ELSE <<>>
workspacesToRestore ==
    IF restoring
    THEN lastOpen.before.backups.workspaces
         \o doGetUntitledWorkspacesFromLastSession(lastOpen.before.windowsState)
    ELSE <<>>
emptyToRestore ==
    IF restoring
    THEN lastOpen.before.backups.empty
         \o SelectSeq(lastOpen.windowsToOpen, LAMBDA v : /\ ~HasWorkspace(v.workspace)
                                                         /\ ~Truthy(v.folderPath)
                                                         /\ Truthy(v.backupPath))
    ELSE <<>>

\* C20 as stated: the files-only placement step runs only when there are files and
\* no folders, no workspaces and no empty-window restores pending.
C20_FilesStepOnlyWithoutOtherTargets ==
    lastOpen.calls > 0 /\ lastOpen.filesStep
      => /\ HasFiles(lastOpen.files)
         /\ Len(folderTargets) = 0 /\ Len(foldersToRestore) = 0
         /\ Len(workspaceTargets) = 0 /\ Len(workspacesToRestore) = 0
         /\ Len(emptyToRestore) = 0

\* the last open() call had one target, a folder or a workspace
singleTarget(call) ==
    /\ Len(call.windowsToOpen) = 1
    /\ \/ HasWorkspace(call.windowsToOpen[1].workspace)
       \/ Truthy(call.windowsToOpen[1].folderPath) /\ ~Truthy(call.windowsToOpen[1].filePath)

\* no window of the sequence shows the target v
shownNowhere(windows, v) ==
    IF HasWorkspace(v.workspace) THEN findWindowOnWorkspace(windows, v.workspace) = NoWindow
    ELSE findWindowOnFolder(windows, v.folderPath) = NoWindow

\* the delivery d asks the window i to load the target v
loadsInto(d, i, v) ==
    /\ d.win = i /\ ~d.created /\ d.how = "load"
    /\ IF HasWorkspace(v.workspace) THEN d.workspace = v.workspace
       ELSE ~HasWorkspace(d.workspace) /\ d.folderPath = v.folderPath

\* C19: an open() call with forceReuseWindow and a single folder or workspace target
\* that no window shows, made while a window is live, hands the target to the last
\* active window to load and creates no window, whatever openFoldersInNewWindow
\* says and whatever the window shows.
C19_ForceReuseLoadsIntoLastActive ==
    [][(/\ lastOpen'.calls = lastOpen.calls + 1
        /\ lastOpen'.openConfig.forceReuseWindow
        /\ singleTarget(lastOpen')
        /\ shownNowhere(WINDOWS, lastOpen'.windowsToOpen[1])
        /\ Len(WINDOWS) > 0)
         => /\ Len(WINDOWS') = Len(WINDOWS)
            /\ Len(lastOpen'.deliveries) = 1
            /\ loadsInto(lastOpen'.deliveries[1],
                         getLastActiveWindowOf(WINDOWS, focusOrder).id,
                         lastOpen'.windowsToOpen[1])
            /\ \E req \in pending' :
                 /\ req.win = getLastActiveWindowOf(WINDOWS, focusOrder).id
                 /\ req.reason = "LOAD"
                 /\ req.configuration.workspace = lastOpen'.windowsToOpen[1].workspace
                 /\ req.configuration.folderPath = lastOpen'.windowsToOpen[1].folderPath]_vars

\* with openFoldersInNewWindow on, a call with forceReuseWindow has handed a folder
\* that no window showed to a live window that shows another folder
C19_Witness ==
    /\ lastOpen.calls > 0 /\ lastOpen.openConfig.forceReuseWindow
    /\ ~lastOpen.openConfig.forceNewWindow
    /\ lastOpen.windowConfig.openFoldersInNewWindow = "on"
    /\ singleTarget(lastOpen)
    /\ shownNowhere(lastOpen.before.windows, lastOpen.windowsToOpen[1])
    /\ Len(lastOpen.deliveries) = 1
    /\ \E k \in 1..Len(lastOpen.before.windows) :
         /\ Truthy(openedFolderPath(lastOpen.before.windows[k]))
         /\ loadsInto(lastOpen.deliveries[1], lastOpen.before.windows[k].id,
                      lastOpen.windowsToOpen[1])

\* the windows whose folder holds the first file of the call: what
\* findBestWindowOrFolderForFile picks from when files may go to a live window
windowsOnFilePath(call) ==
    LET files == call.files.toOpen \o call.files.toCreate \o call.files.toDiff
        should == shouldOpenNewWindow(call.openConfig, call.windowConfig)
    IN  IF /\ ~should.openFilesInNewWindow
           /\ Len(files) > 0
           /\ call.openConfig.context \in {"DESKTOP", "CLI", "DOCK"}
        THEN SelectSeq(WINDOWS, LAMBDA w : /\ Truthy(openedFolderPath(w))
                                           /\ isParent(files[1].filePath, openedFolderPath(w),
                                                       ~isLinux))
        ELSE <<>>

\* the call has files as its only targets and restores nothing
filesOnly(call) ==
    /\ HasFiles(call.files)
    /\ \A k \in 1..Len(call.windowsToOpen) : Truthy(call.windowsToOpen[k].filePath)
    /\ ~call.openConfig.initialStartup

\* C21: an open() call for files, for which the window finder returns a live window
\* whose folder holds the file, focuses that window and hands it the files in an
\* openFiles message; the call returns that window alone, and no window is created.
C21_FileGoesToWindowOnItsFolder ==
    [][(/\ lastOpen'.calls = lastOpen.calls + 1
        /\ filesOnly(lastOpen')
        /\ Len(windowsOnFilePath(lastOpen')) > 0)
         => LET w == windowsOnFilePath(lastOpen')[1]
            IN  /\ Len(WINDOWS') = Len(WINDOWS)
                /\ lastOpen'.used = <<w.id>>
                /\ Len(lastOpen'.deliveries) = 1
                /\ lastOpen'.deliveries[1].win = w.id
                /\ lastOpen'.deliveries[1].how = "openFiles"
                /\ ~lastOpen'.deliveries[1].created
                /\ lastOpen'.deliveries[1].filesToOpen = lastOpen'.files.toOpen
                /\ lastOpen'.deliveries[1].filesToCreate = lastOpen'.files.toCreate
                /\ lastOpen'.deliveries[1].filesToDiff = lastOpen'.files.toDiff
                /\ Len(focusOrder') > 0 /\ focusOrder'[Len(focusOrder')] = w.id
                /\ pending' = pending]_vars

\* /a/f was handed to the window on /a, which was not the window created last
C21_Witness ==
    /\ lastOpen.calls > 1
    /\ Len(lastOpen.windowsToOpen) = 1 /\ lastOpen.windowsToOpen[1].filePath = "/a/f"
    /\ Len(lastOpen.before.windows) >= 2
    /\ Len(lastOpen.deliveries) = 1 /\ lastOpen.deliveries[1].how = "openFiles"
    /\ \E k \in 1..Len(lastOpen.before.windows) :
         /\ lastOpen.before.windows[k].id = lastOpen.deliveries[1].win
         /\ openedFolderPath(lastOpen.before.windows[k]) = "/a"
         /\ k < Len(lastOpen.before.windows)

\* the live windows that are no extension development hosts
liveNonDevelopment == SelectSeq(WINDOWS, LAMBDA w : ~isExtensionDevelopmentHost(w))

\* C22: onBeforeQuit persists in openedWindows one snapshot for every live window that
\* is no extension development host when more than one window is open, and no
\* snapshot when at most one window is open; it writes the state to the store once,
\* and nothing else writes it.
C22_QuitPersistsOpenedWindows ==
    [][/\ (~quitRequested /\ quitRequested')
            => /\ storeWrites' = storeWrites + 1
               /\ store'.openedWindowsKind = "array"
               /\ IF Len(WINDOWS) > 1
                  THEN /\ Len(store'.openedWindows) = Len(liveNonDevelopment)
                       /\ \A k \in 1..Len(liveNonDevelopment) :
                            store'.openedWindows[k] = toWindowState(liveNonDevelopment[k])
                  ELSE store'.openedWindows = <<>>
       /\ (store' # store \/ storeWrites' # storeWrites) => (~quitRequested /\ quitRequested')
      ]_vars

\* the application quit with two windows, one of them an extension development
\* host, and one snapshot was persisted
C22_Witness ==
    /\ quitRequested /\ storeWrites = 1
    /\ Len(WINDOWS) = 2
    /\ \A k \in 1..2 : WINDOWS[k].closing = Undef
    /\ Len(liveNonDevelopment) = 1
    /\ store.openedWindows = <<toWindowState(liveNonDevelopment[1])>>

\* C23: onBeforeQuit persists as lastActiveWindow the snapshot of the last closed
\* window if one was captured; otherwise the snapshot of the window active last if
\* that is no extension development host, else of the first live window that is
\* none, else nothing.
C23_QuitPersistsLastActive ==
    [][(~quitRequested /\ quitRequested')
         => store'.lastActiveWindow =
              IF ~lastClosedWindowState.isNull THEN lastClosedWindowState
              ELSE IF /\ getLastActiveWindow # NoWindow
                      /\ ~isExtensionDevelopmentHost(getLastActiveWindow)
              THEN toWindowState(getLastActiveWindow)
              ELSE IF Len(liveNonDevelopment) > 0 THEN toWindowState(liveNonDevelopment[1])
              ELSE NoState]_vars

\* the application quit while an extension development host was the window active
\* last: the snapshot persisted is that of the other window
C23_Witness ==
    /\ quitRequested /\ storeWrites = 1
    /\ lastClosedWindowState.isNull
    /\ getLastActiveWindow # NoWindow /\ isExtensionDevelopmentHost(getLastActiveWindow)
    /\ Len(liveNonDevelopment) > 0
    /\ \A k \in 1..Len(WINDOWS) : WINDOWS[k].closing = Undef
    /\ store.lastActiveWindow = toWindowState(liveNonDevelopment[1])
    /\ store.lastActiveWindow # toWindowState(getLastActiveWindow)

-----------------------------------------------------------------------------
(* Restoring all the windows of the last session: the claims checked under SpecRestore *)

\* the last session was restored with window.restoreWindows 'all' or 'folders'
restoredAll ==
    /\ lastOpen.calls = 1
    /\ lastOpen.restoreWindows \in {"all", "folders"}
    /\ ~lastOpen.threw

\* the window states of the last session: the opened windows and the last active one
persistedWindows ==
    Range(windowsState.openedWindows)
      \cup (IF windowsState.lastActiveWindow.isNull THEN {}
            ELSE {windowsState.lastActiveWindow})

\* the workspace files and the folders of the last session that are still on disk,
\* and the backups of the windows that were empty
persistedWorkspaces ==
    {normalize(p.workspace.configPath) :
       p \in {p \in persistedWindows : HasWorkspace(p.workspace)}} \cap WorkspaceFiles
persistedFolders ==
    {normalize(p.folderPath) :
       p \in {p \in persistedWindows : Truthy(p.folderPath)}} \cap Folders
persistedEmpty ==
    {p.backupPath : p \in {p \in persistedWindows : /\ ~HasWorkspace(p.workspace)
                                                    /\ ~Truthy(p.folderPath)
                                                    /\ Truthy(p.backupPath)}}

\* C26: with window.restoreWindows 'all' or 'folders' the result holds a target for
\* every workspace and every folder of the last session that is still on disk;
\* 'all' adds a target for the backup of every window stored as empty, 'folders'
\* adds none; and when that leaves nothing, the result is the one empty window.
C26_RestoreAllTargets ==
    restoredAll
      => LET targets == lastOpen.windowsToOpen
             wanted == Cardinality(persistedWorkspaces) + Cardinality(persistedFolders)
                       + (IF lastOpen.restoreWindows = "all"
                          THEN Cardinality(persistedEmpty) ELSE 0)
         IN  /\ \A c \in persistedWorkspaces :
                  \E k \in 1..Len(targets) :
                      /\ HasWorkspace(targets[k].workspace)
                      /\ targets[k].workspace.configPath = c
                      /\ targets[k].workspace.id = resolveWorkspaceSync(c)
             /\ \A f \in persistedFolders :
                  \E k \in 1..Len(targets) : targets[k].folderPath = f
             /\ lastOpen.restoreWindows = "all"
                  => \A b \in persistedEmpty :
                       \E k \in 1..Len(targets) :
                           /\ targets[k].backupPath = b
                           /\ ~HasWorkspace(targets[k].workspace)
                           /\ ~Truthy(targets[k].folderPath)
             /\ lastOpen.restoreWindows = "folders"
                  => \A k \in 1..Len(targets) : ~Truthy(targets[k].backupPath)
             /\ wanted = 0 => targets = <<EmptyTarget>>
             /\ wanted > 0 => \A k \in 1..Len(targets) : targets[k] # EmptyTarget

\* 'all' restored a workspace, a folder and the backup of an empty window, and
\* left out the folder that is gone
C26_Witness ==
    /\ restoredAll /\ lastOpen.restoreWindows = "all"
    /\ persistedWorkspaces = {"/w1.ws"}
    /\ persistedFolders = {"/a"}
    /\ persistedEmpty = {"/bk/e2"}
    /\ Len(lastOpen.windowsToOpen) = 3
    /\ \E p \in persistedWindows : p.folderPath = "/gone"

\* C27 as stated: with 'all' or 'folders' no two targets of the result are for the
\* same workspace id, the same folder path or the same backup path.
C27_RestoredTargetsDistinct ==
    restoredAll
      => \A j, k \in 1..Len(lastOpen.windowsToOpen) :
           LET a == lastOpen.windowsToOpen[j]
               b == lastOpen.windowsToOpen[k]
           IN  j # k
                 => /\ ~(/\ HasWorkspace(a.workspace) /\ HasWorkspace(b.workspace)
                         /\ a.workspace.id = b.workspace.id)
                    /\ ~(Truthy(a.folderPath) /\ a.folderPath = b.folderPath)
                    /\ ~(Truthy(a.backupPath) /\ a.backupPath = b.backupPath)

-----------------------------------------------------------------------------
(* A workspace whose file has moved: the claim checked under SpecOpen *)

\* C28: when an open() call targets a workspace that a live window shows under
\* another configPath, that window is handed the workspace with the new configPath
\* to load (the load follows the unload negotiation), no window is created for the
\* workspace, and the window is in the returned list exactly once.
C28_MovedWorkspaceReloadsItsWindow ==
    [][\A k \in 1..Len(lastOpen'.windowsToOpen) :
         LET v == lastOpen'.windowsToOpen[k]
             existing == findWindowOnWorkspace(WINDOWS, v.workspace)
         IN  (/\ lastOpen'.calls = lastOpen.calls + 1
              /\ HasWorkspace(v.workspace)
              /\ existing # NoWindow
              /\ openedWorkspace(existing).configPath # v.workspace.configPath)
               => /\ \E j \in 1..Len(lastOpen'.deliveries) :
                       loadsInto(lastOpen'.deliveries[j], existing.id, v)
                  /\ \E req \in pending' :
                       /\ req.win = existing.id /\ req.reason = "LOAD"
                       /\ req.configuration.workspace = v.workspace
                  /\ \A j \in 1..Len(lastOpen'.deliveries) :
                       ~(/\ lastOpen'.deliveries[j].created
                         /\ HasWorkspace(lastOpen'.deliveries[j].workspace)
                         /\ lastOpen'.deliveries[j].workspace.id = v.workspace.id)
                  /\ Cardinality({j \in 1..Len(lastOpen'.used) :
                                    lastOpen'.used[j] = existing.id}) = 1]_vars

\* the window that showed w1 as /w1.ws when /w1-moved.ws was opened has loaded it
\* under the new path; the call created no window and returned that window alone
C28_Witness ==
    /\ lastOpen.calls > 0
    /\ Len(lastOpen.windowsToOpen) = 1
    /\ HasWorkspace(lastOpen.windowsToOpen[1].workspace)
    /\ lastOpen.windowsToOpen[1].workspace.configPath = "/w1-moved.ws"
    /\ Len(lastOpen.used) = 1
    /\ Len(WINDOWS) = Len(lastOpen.before.windows)
    /\ \E k \in 1..Len(lastOpen.before.windows) :
         /\ lastOpen.before.windows[k].id = lastOpen.used[1]
         /\ HasWorkspace(openedWorkspace(lastOpen.before.windows[k]))
         /\ openedWorkspace(lastOpen.before.windows[k]).configPath = "/w1.ws"
         /\ openedWorkspace(getWindowById(lastOpen.used[1])).configPath = "/w1-moved.ws"

-----------------------------------------------------------------------------
(* The wait marker file: the claim checked under SpecWait *)

\* the open() call of this step asks to wait: the CLI's, with --wait and a marker file
asksToWait ==
    /\ lastOpen'.calls = lastOpen.calls + 1
    /\ lastOpen'.openConfig.context = "CLI"
    /\ lastOpen'.openConfig.cli.wait
    /\ Truthy(lastOpen'.openConfig.cli.waitMarkerFilePath)

\* C29: a marker file is deleted in the step in which the window that its open()
\* call used leaves the live windows (the 'closed' event of that window), and in
\* no other step: not in the call, not when another window closes.  The call
\* schedules the deletion when it used exactly one window, and schedules nothing
\* when it used none or several.
C29_MarkerDeletedOnCloseOfItsWindow ==
    [][/\ \A m \in unlinked' \ unlinked :
            \E l \in waiters : /\ l.marker = m
                               /\ l.windowId \in liveIds /\ l.windowId \notin liveIds'
       /\ \A l \in waiters :
            (l.windowId \in liveIds /\ l.windowId \notin liveIds') => l.marker \in unlinked'
       /\ \A l \in waiters' \ waiters :
            /\ asksToWait
            /\ lastOpen'.used = <<l.windowId>>
            /\ l.marker = lastOpen'.openConfig.cli.waitMarkerFilePath
            /\ l.windowId \in liveIds'
       /\ asksToWait
            => /\ unlinked' = unlinked
               /\ IF Len(lastOpen'.used) = 1
                  THEN [windowId |-> lastOpen'.used[1],
                        marker |-> lastOpen'.openConfig.cli.waitMarkerFilePath] \in waiters'
                  ELSE waiters' = waiters]_vars

\* the window that a call waits for is live and its marker file is there, after
\* another window has closed; the marker file of an earlier call was deleted when
\* its window closed
C29_Witness ==
    /\ \E l \in waiters : l.marker = "/m2" /\ l.windowId \in liveIds /\ l.windowId > 1
    /\ "/m1" \in unlinked /\ "/m2" \notin unlinked
    /\ 1 \notin liveIds

-----------------------------------------------------------------------------
(* Two open() calls for one target: the claim checked under SpecOpen *)

\* the window w shows neither a folder nor a workspace
showsNothing(w) == ~HasWorkspace(openedWorkspace(w)) /\ ~Truthy(openedFolderPath(w))

\* the request req asks a window to load the target v
requestsTarget(req, v) ==
    /\ req.reason = "LOAD"
    /\ IF HasWorkspace(v.workspace)
       THEN HasWorkspace(req.configuration.workspace)
            /\ req.configuration.workspace.id = v.workspace.id
       ELSE ~HasWorkspace(req.configuration.workspace)
            /\ req.configuration.folderPath = v.folderPath

\* C30: a window that an open() call creates shows nothing until its unload
\* negotiation has ended and it has loaded: its target is held by the pending
\* request alone, where the lookup of the windows by folder or workspace does not
\* see it.  A later call with forceNewWindow for a target that is pending, and that
\* no window shows, therefore creates one more window for it.
C30_PendingTargetNotSeen ==
    [][(lastOpen'.calls = lastOpen.calls + 1 /\ ~settleNow)
         => /\ \A j \in 1..Len(lastOpen'.deliveries) :
                 LET d == lastOpen'.deliveries[j]
                     w == First(SelectSeq(WINDOWS', LAMBDA x : x.id = d.win), NoWindow)
                 IN  (d.created /\ d.how = "load")
                       => /\ ~w.loaded /\ showsNothing(w)
                          /\ \E req \in pending' :
                               /\ req.win = d.win /\ req.reason = "LOAD"
                               /\ req.configuration.workspace = d.workspace
                               /\ req.configuration.folderPath = d.folderPath
            /\ (/\ singleTarget(lastOpen')
                /\ lastOpen'.openConfig.forceNewWindow
                /\ ~lastOpen'.openConfig.forceReuseWindow
                /\ shownNowhere(WINDOWS, lastOpen'.windowsToOpen[1])
                /\ \E req \in pending : requestsTarget(req, lastOpen'.windowsToOpen[1]))
                 => /\ Len(WINDOWS') = Len(WINDOWS) + 1
                    /\ \E req \in pending' \ pending :
                         /\ req.win = WINDOWS'[Len(WINDOWS')].id
                         /\ requestsTarget(req, lastOpen'.windowsToOpen[1])]_vars

\* two live windows show the folder /a: the second open() call for /a was made
\* while the window of the first was waiting to load, and both have loaded since
C30_Witness ==
    /\ ~settleNow
    /\ lastOpen.calls = 2
    /\ singleTarget(lastOpen) /\ lastOpen.windowsToOpen[1].folderPath = "/a"
    /\ \E k \in 1..Len(lastOpen.before.windows) :
         /\ ~lastOpen.before.windows[k].loaded
         /\ \E req \in lastOpen.before.pending :
              /\ req.win = lastOpen.before.windows[k].id
              /\ requestsTarget(req, lastOpen.windowsToOpen[1])
    /\ \E j, k \in 1..Len(WINDOWS) :
         /\ j # k
         /\ WINDOWS[j].loaded /\ openedFolderPath(WINDOWS[j]) = "/a"
         /\ WINDOWS[k].loaded /\ openedFolderPath(WINDOWS[k]) = "/a"

-----------------------------------------------------------------------------
(* SpecFullscreen: the mode of a new window *)

\* window.newWindowDimensions and window.restoreFullscreen, as the user can set them
FullscreenSettings ==
    { WindowSettings("default", "off", "one", Undef, dims, restoreFullscreen) :
        dims \in {"default", "fullscreen", "inherit", "maximized"},
        restoreFullscreen \in BOOLEAN }

\* a session that stored /a in fullscreen mode, after an update and without one
FullscreenStartups ==
    { Startup("linux", BlobFolders, NoBackups, FALSE),
      Startup("linux", BlobFolders, NoBackups, TRUE),
      Startup("darwin", BlobFolders, NoBackups, FALSE) }

InitFullscreen == InitFrom(FullscreenStartups)

FullscreenStartupCalls == {CliOpen(<<"/a">>), CliOpen(<<"/b">>), CliDevelopment(<<"/b">>)}
FullscreenLaterCalls ==
    {ApiOpen("API", <<"/b">>, TRUE, FALSE), ApiOpen("API", <<"/a">>, TRUE, FALSE)}

NextFullscreen ==
    \/ pending = {} /\ OpenCall(FullscreenStartupCalls, FullscreenLaterCalls,
                                FullscreenSettings, MaxSessionWindows)
    \/ \E req \in pending : UnloadDone(req, FALSE)
    \/ \E i \in WindowIds : pending = {} /\ Move(i, UiFull)
    \/ \E i \in WindowIds : pending = {} /\ BeforeWindowClose(i)
    \/ \E i \in WindowIds : onWindowClosed(i)

SpecFullscreen == InitFullscreen /\ [][NextFullscreen]_vars

\* the window of WINDOWS' that the delivery d is about
windowOf(d) == First(SelectSeq(WINDOWS', LAMBDA w : w.id = d.win), NoWindow)

\* the entries of openedWindows for the folder of the delivery d
storedForFolder(d) ==
    SelectSeq(windowsState.openedWindows,
              LAMBDA o : isEqual(o.folderPath, d.folderPath, ~isLinux))

\* C31: a window is created in fullscreen mode only if its state is a computed
\* default and window.newWindowDimensions is 'fullscreen' or 'inherit', or its state
\* is a stored one and the application was restarted or window.restoreFullscreen is
\* set.  A window created for a folder that openedWindows stores in fullscreen mode
\* takes that state as it is when fullscreen is allowed, and with mode normal when
\* it is not.
C31_FullscreenOnlyWhenAllowed ==
    [][lastOpen'.calls = lastOpen.calls + 1
         => \A j \in 1..Len(lastOpen'.deliveries) :
              LET d == lastOpen'.deliveries[j]
                  windowConfig == lastOpen'.windowConfig
                  cli == lastOpen'.openConfig.cli
              IN  d.created
                    => /\ windowOf(d).uiState.mode = "fullscreen"
                            => IF d.hasDefaultState
                               THEN windowConfig.newWindowDimensions
                                      \in {"fullscreen", "inherit"}
                               ELSE wasRestarted \/ windowConfig.restoreFullscreen
                       /\ (/\ Len(lastOpen'.deliveries) = 1
                           /\ Truthy(d.folderPath) /\ ~HasWorkspace(d.workspace)
                           /\ ~Truthy(cli.extensionDevelopmentPath)
                           /\ ~Truthy(cli.extensionTestsPath)
                           /\ Len(storedForFolder(d)) > 0
                           /\ storedForFolder(d)[1].uiState.mode = "fullscreen")
                            => /\ ~d.hasDefaultState
                               /\ windowOf(d).uiState =
                                    IF wasRestarted \/ windowConfig.restoreFullscreen
                                    THEN storedForFolder(d)[1].uiState
                                    ELSE [storedForFolder(d)[1].uiState
                                            EXCEPT !.mode = "normal"]]_vars

\* window.newWindowDimensions is 'fullscreen', and the window created for /a, which
\* the last session stored in fullscreen mode, is in mode normal
C31_Witness ==
    /\ lastOpen.calls = 1
    /\ lastOpen.windowConfig.newWindowDimensions = "fullscreen"
    /\ ~lastOpen.windowConfig.restoreFullscreen /\ ~wasRestarted
    /\ Len(lastOpen.deliveries) = 1 /\ lastOpen.deliveries[1].created
    /\ lastOpen.deliveries[1].folderPath = "/a"
    /\ ~lastOpen.deliveries[1].hasDefaultState
    /\ Len(WINDOWS) = 1 /\ WINDOWS[1].uiState = [UiFull EXCEPT !.mode = "normal"]

-----------------------------------------------------------------------------
(* SpecDevelopment: openExtensionDevelopmentHostWindow *)

\* lines 898: the windows that have loaded a configuration with the development path
windowsOnDevelopmentPath(cli) ==
    SelectSeq(WINDOWS, LAMBDA w : /\ w.loaded
                                  /\ isEqual(w.config.extensionDevelopmentPath,
                                             cli.extensionDevelopmentPath, ~isLinux))

\* lines 906-919: the paths of the call, the folder of the last development host
\* filled in, and emptied when a window shows one of them
developmentArgs(cli) ==
    LET last == windowsState.lastPluginDevelopmentHostWindow
        filled == IF /\ Len(cli.args) = 0 /\ ~Truthy(cli.extensionTestsPath)
                     /\ ~last.isNull /\ Truthy(last.folderPath)
                  THEN <<last.folderPath>> ELSE cli.args
    IN  IF /\ Len(filled) > 0
           /\ \E k \in 1..Len(WINDOWS) : /\ Truthy(openedFolderPath(WINDOWS[k]))
                                         /\ openedFolderPath(WINDOWS[k]) \in Range(filled)
        THEN <<>> ELSE filled

\* WindowsManager.openExtensionDevelopmentHostWindow: the one window on the
\* development path is reloaded (reload, lines 1163-1174, asks the window to unload
\* first) and focused; else open() is called with forceNewWindow
openExtensionDevelopmentHostWindow(openConfig, windowConfig) ==
    LET res == windowsOnDevelopmentPath(openConfig.cli)
    IN  IF Len(res) = 1
        THEN /\ pending' = pending \cup {UnloadRequest(res[1].id, "RELOAD", res[1].config,
                                                       Undef)}
             /\ focusOrder' = focused(focusOrder, res[1].id)
             /\ thrown' = FALSE
             /\ UNCHANGED <<platform, store, windowsState, lastClosedWindowState, WINDOWS,
                            quitRequested, backups, mru, nextId, storeWrites, migrations,
                            moves, wasRestarted, settleNow, vetoes, lastOpen, lastUnload,
                            dialogs, waiters, unlinked>>
        ELSE /\ Open([openConfig EXCEPT !.cli.args = developmentArgs(openConfig.cli),
                                        !.forceNewWindow = TRUE,
                                        !.forceEmpty = Len(developmentArgs(openConfig.cli)) = 0],
                     windowConfig)
             /\ nextId' <= MaxWindows + 1

\* the calls of the debugger: an extension with and without a folder, another extension
DevelopmentCalls ==
    { CliDevelopment(<<>>), CliDevelopment(<<"/a">>),
      [CliDevelopment(<<>>) EXCEPT !.cli.extensionDevelopmentPath = "/ext2"] }

DevelopmentStartups ==
    { Startup("linux", BlobEmpty, NoBackups, FALSE),
      Startup("win32", NoBlob, NoBackups, FALSE) }

InitDevelopment == InitFrom(DevelopmentStartups)

NextDevelopment ==
    \/ \E openConfig \in DevelopmentCalls :
         ~quitRequested /\ openExtensionDevelopmentHostWindow(openConfig, SettingsDefault)
    \/ \E req \in pending : UnloadDone(req, FALSE)
    \/ \E i \in WindowIds : pending = {} /\ BeforeWindowClose(i)
    \/ \E i \in WindowIds : onWindowClosed(i)

SpecDevelopment == InitDevelopment /\ [][NextDevelopment]_vars

\* C32 as stated: no two live windows are extension development hosts for the same
\* extension development path.
C32_OneHostPerDevelopmentPath ==
    \A j, k \in 1..Len(WINDOWS) :
        (/\ j # k
         /\ isExtensionDevelopmentHost(WINDOWS[j])
         /\ isExtensionDevelopmentHost(WINDOWS[k]))
          => ~isEqual(WINDOWS[j].extensionDevelopmentPath,
                      WINDOWS[k].extensionDevelopmentPath, ~isLinux)

\* ---------------------------------------------------------------------------
\* SpecSaved: a workspace is saved under a (new) path
\* ---------------------------------------------------------------------------

\* a rule that moves every stored record of a workspace, whatever its id
savedStateOfAny(state, e) ==
    IF ~state.isNull /\ HasWorkspace(state.workspace)
       /\ state.workspace.configPath # e.workspace.configPath
    THEN [state EXCEPT !.workspace.configPath = e.workspace.configPath]
    ELSE state

\* onWorkspaceSaved, the body of states.forEach: a record of the saved workspace
\* gets the config path of the event
savedState(state, e) ==
    IF ~state.isNull /\ HasWorkspace(state.workspace)
       /\ state.workspace.id = e.workspace.id
       /\ state.workspace.configPath # e.workspace.configPath
    THEN [state EXCEPT !.workspace.configPath = e.workspace.configPath]
    ELSE state

\* onWorkspaceSaved(e): the last closed window, lastActiveWindow,
\* lastPluginDevelopmentHostWindow and every entry of openedWindows
onWorkspaceSaved(e) ==
    /\ lastClosedWindowState' = savedState(lastClosedWindowState, e)
    /\ windowsState' =
         [windowsState EXCEPT
            !.lastActiveWindow = savedState(@, e),
            !.lastPluginDevelopmentHostWindow = savedState(@, e),
            !.openedWindows = SeqMap(@, LAMBDA o : savedState(o, e))]
    /\ thrown' = FALSE
    /\ UNCHANGED <<vetoes, lastUnload, dialogs, waiters, unlinked>>
    /\ UNCHANGED <<platform, store, WINDOWS, focusOrder, quitRequested, pending, backups,
                   mru, nextId, storeWrites, migrations, moves, wasRestarted, settleNow,
                   lastOpen>>

\* IWorkspaceSavedEvent
WorkspaceSavedEvent(ws, old) == [workspace |-> ws, oldConfigPath |-> old]

\* the events of workspacesService.onWorkspaceSaved: w1 saved under a new path and
\* back, and the untitled workspace saved
SavedEvents ==
    { WorkspaceSavedEvent(Ws("w1", "/w1-moved.ws"), "/w1.ws"),
      WorkspaceSavedEvent(Ws("w1", "/w1.ws"), "/w1-moved.ws"),
      WorkspaceSavedEvent(Ws("u", "/u-saved.ws"), "/u.ws") }

\* the session of a previous run: w1 in every kind of record, next to an untitled
\* workspace and a folder
BlobWorkspaces ==
    WindowsStateOf(WState(Ws("w1", "/w1.ws"), Undef, Undef, "/bk/w1", UiNormal),
                   WState(Ws("w1", "/w1.ws"), Undef, Undef, Undef, UiMoved),
                   "array", <<WState(Ws("w1", "/w1.ws"), Undef, Undef, "/bk/w1", UiNormal),
                              WState(Ws("u", "/u.ws"), Undef, Undef, "/bk/u", UiMoved),
                              WState(NoWorkspace, "/a", Undef, "/bk/a", UiFull)>>,
                   "array", <<>>)

SavedStartups ==
    { Startup("linux", BlobWorkspaces, NoBackups, FALSE),
      Startup("darwin", BlobWorkspaces, NoBackups, FALSE),
      Startup("linux", BlobFolders, NoBackups, FALSE) }

InitSaved == InitFrom(SavedStartups)

SavedStartupCalls == {CliOpen(<<"/w1.ws">>), CliOpen(<<"/u.ws">>), CliRestore}
SavedLaterCalls == {ApiOpen("API", <<"/a">>, TRUE, FALSE)}

NextSaved ==
    \/ pending = {} /\ OpenCall(SavedStartupCalls, SavedLaterCalls, {SettingsDefault},
                                MaxSessionWindows)
    \/ \E req \in pending : UnloadDone(req, FALSE)
    \/ \E i \in WindowIds : pending = {} /\ BeforeWindowClose(i)
    \/ \E i \in WindowIds : onWindowClosed(i)
    \/ \E e \in SavedEvents : onWorkspaceSaved(e)

SpecSaved == InitSaved /\ [][NextSaved]_vars

\* the records onWorkspaceSaved walks, in its order, before and after a step
savedRecords ==
    <<lastClosedWindowState, windowsState.lastActiveWindow,
      windowsState.lastPluginDevelopmentHostWindow>> \o windowsState.openedWindows
savedRecordsAfter ==
    <<lastClosedWindowState', windowsState'.lastActiveWindow,
      windowsState'.lastPluginDevelopmentHostWindow>> \o windowsState'.openedWindows

\* C33: after a workspace-saved event every record (last closed window,
\* lastActiveWindow, lastPluginDevelopmentHostWindow, openedWindows) whose workspace
\* id is that of the event has the config path of the event; no record's workspace id
\* changes and a record of another workspace, or of none, is unchanged
C33_SavedWorkspaceMovesItsRecords ==
    [][\A e \in SavedEvents :
         onWorkspaceSaved(e) =>
           /\ Len(savedRecordsAfter) = Len(savedRecords)
           /\ \A k \in 1..Len(savedRecords) :
                LET r == savedRecords[k]
                    q == savedRecordsAfter[k]
                IN  /\ q.isNull = r.isNull
                    /\ q.workspace.id = r.workspace.id
                    /\ IF ~r.isNull /\ r.workspace.id = e.workspace.id
                       THEN /\ q.workspace.configPath = e.workspace.configPath
                            /\ q.folderPath = r.folderPath
                            /\ q.backupPath = r.backupPath
                            /\ q.uiState = r.uiState
                       ELSE q = r]_vars

\* w1 is stored under the moved path in all four kinds of record, next to the
\* untitled workspace under its old path
C33_Witness ==
    /\ lastClosedWindowState.workspace = Ws("w1", "/w1-moved.ws")
    /\ windowsState.lastActiveWindow.workspace = Ws("w1", "/w1-moved.ws")
    /\ windowsState.lastPluginDevelopmentHostWindow.workspace = Ws("w1", "/w1-moved.ws")
    /\ \E k \in 1..Len(windowsState.openedWindows) :
         windowsState.openedWindows[k].workspace = Ws("w1", "/w1-moved.ws")
    /\ \E k \in 1..Len(windowsState.openedWindows) :
         windowsState.openedWindows[k].workspace = Ws("u", "/u.ws")

\* ---------------------------------------------------------------------------
\* SpecStore: what writes the stored windows state
\* ---------------------------------------------------------------------------

\* opens, closes, a quit, reloads, and windows that crash or hang
NextStore ==
    \/ \E req \in pending : UnloadDone(req, FALSE)
    \/ \E i \in WindowIds : onWindowClosed(i)
    \/ pending = {} /\ OpenCall(CloseStartupCalls, CloseLaterCalls, CloseSettings,
                                MaxSessionWindows)
    \/ \E i \in WindowIds : pending = {} /\ BeforeWindowClose(i)
    \/ pending = {} /\ Quit
    \/ \E i \in WindowIds : pending = {} /\ dialogs = {} /\ lastUnload = NoUnload
                               /\ reload(i, "CANCEL", Undef, FALSE)
    \/ \E i \in WindowIds, error \in WindowErrors : \E result \in Buttons(error) :
         pending = {} /\ dialogs = {} /\ WindowError(i, error, result)
    \/ \E d \in dialogs : DialogResult(d)

SpecStore == InitClose /\ [][NextStore]_vars

\* onBeforeQuit runs in this step
quits == ~quitRequested /\ quitRequested'

\* no entry of openedWindows is for the workspace or the folder of the window w
noEntryFor(w) ==
    \A j \in 1..Len(windowsState.openedWindows) :
      ~sameTargetStored(windowsState.openedWindows[j], w)

\* C34: the stored windows state is written by the quit handler only (no open, close,
\* reload, crash or hang writes it); no step adds or removes an entry of openedWindows
\* in memory, a close replaces the uiState of entries only; and the close, outside a
\* quit, of a window whose workspace or folder has no entry leaves openedWindows as
\* it is.
C34_StoreWrittenAtQuitOnly ==
    [][/\ (store' # store \/ storeWrites' # storeWrites) => quits
       /\ Len(windowsState'.openedWindows) = Len(windowsState.openedWindows)
       /\ \A j \in 1..Len(windowsState.openedWindows) :
            windowsState'.openedWindows[j] =
              [windowsState.openedWindows[j] EXCEPT
                 !.uiState = windowsState'.openedWindows[j].uiState]
       /\ \A k \in 1..Len(WINDOWS) :
            (/\ ~quitRequested
             /\ WINDOWS[k].closing = Undef
             /\ \/ closesOutsideQuit(WINDOWS[k])
                \/ WINDOWS[k].id \notin {WINDOWS'[j].id : j \in 1..Len(WINDOWS')}
             /\ noEntryFor(WINDOWS[k]))
              => windowsState'.openedWindows = windowsState.openedWindows]_vars

\* a window on folder /b, for which nothing is stored, has closed outside a quit next
\* to another window: the three stored entries are those of the store, which was not
\* written
C34_Witness ==
    /\ ~quitRequested /\ storeWrites = 0
    /\ \E k \in 1..Len(WINDOWS) :
         /\ WINDOWS[k].closing = "CLOSE"
         /\ openedFolderPath(WINDOWS[k]) = "/b"
         /\ ~isExtensionDevelopmentHost(WINDOWS[k])
         /\ noEntryFor(WINDOWS[k])
    /\ Len(WINDOWS) = 2
    /\ Len(windowsState.openedWindows) = 3
    /\ windowsState.openedWindows = store.openedWindows

\* C35: after opens, closes and a quit, the persisted lastActiveWindow is not the
\* snapshot of an extension development host, also when the host was the last
\* window to close before the quit.
C35_LastActiveIsNoDevelopmentHost ==
    (quitRequested /\ storeWrites > 0)
      => \A k \in 1..Len(WINDOWS) :
           (isExtensionDevelopmentHost(WINDOWS[k]) /\ WINDOWS[k].closing # "QUIT")
             => store.lastActiveWindow # toWindowState(WINDOWS[k])

\* the windows that are live and not closing
liveNow == SelectSeq(WINDOWS, LAMBDA w : w.closing = Undef)

\* C36: the lastActiveWindow persisted at quit describes a window live at the quit or
\* the window closed last before it; once windows were opened after the last closed
\* snapshot was taken (the snapshot is taken when the only window closes, so every
\* window live at the quit was opened after it), the snapshot is not persisted: the
\* record, if there is one, is that of a window live at the quit (one that is
\* closing included).
C36_StaleSnapshotNotPersisted ==
    [][(quits /\ Len(liveNow) > 0)
         => \/ store'.lastActiveWindow.isNull
            \/ \E k \in 1..Len(WINDOWS) :
                 store'.lastActiveWindow = toWindowState(WINDOWS[k])]_vars

\* ---------------------------------------------------------------------------
\* SpecOverlap: ensureNoOverlap for windows at many places
\* ---------------------------------------------------------------------------

\* the state that getNewWindowState centers on the display (lines 1120-1121)
UiCentered ==
    Ui("normal", (DisplayWidth \div 2) - (DefaultWidth \div 2),
       (DisplayHeight \div 2) - (DefaultHeight \div 2))

\* a place k steps of ensureNoOverlap to the right of and j steps below the center
UiAt(k, j) == Ui("normal", UiCentered.x + k * Nudge, UiCentered.y + j * Nudge)

\* a session whose windows stand in the way one after the other: each has the x of
\* one step and the y of a later one
BlobStaggered ==
    WindowsStateOf(NoState, NoState, "array",
                   <<WState(NoWorkspace, "/a", Undef, "/bk/a", UiAt(0, 3)),
                     WState(NoWorkspace, "/b", Undef, "/bk/b", UiAt(1, 4)),
                     WState(Ws("w1", "/w1.ws"), Undef, Undef, "/bk/w1", UiAt(2, 5))>>,
                   "array", <<>>)

OverlapStartups ==
    { Startup("linux", BlobStaggered, NoBackups, FALSE),
      Startup("darwin", BlobStaggered, NoBackups, FALSE) }

InitOverlap == InitFrom(OverlapStartups)

OverlapStartupCalls ==
    { CliRestore, CliOpen(<<"/a">>), CliOpen(<<"/b", "/w1.ws">>), CliOpen(<<"/x">>) }
OverlapLaterCalls ==
    { ApiEmpty, ApiOpen("API", <<"/A">>, TRUE, FALSE), ApiOpen("API", <<"/b">>, TRUE, FALSE),
      ApiOpen("API", <<"/w1.ws">>, TRUE, FALSE) }
OverlapSettings ==
    { WindowSettings("default", "off", "all", Undef, "default", FALSE) }

\* where the user moves a window to
OverlapMoves == {UiAt(0, 1), UiAt(1, 1), UiAt(3, 0)}

NextOverlap ==
    \/ pending = {} /\ OpenCall(OverlapStartupCalls, OverlapLaterCalls, OverlapSettings,
                                MaxWindows)
    \/ \E req \in pending : UnloadDone(req, FALSE)
    \/ \E i \in WindowIds, ui \in OverlapMoves : pending = {} /\ Move(i, ui)
    \/ \E i \in WindowIds : pending = {} /\ BeforeWindowClose(i)
    \/ \E i \in WindowIds : onWindowClosed(i)

SpecOverlap == InitOverlap /\ [][NextOverlap]_vars

\* the states ensureNoOverlap is asked about
OverlapStarts == {UiAt(k, j) : k \in {-1, 0, 1}, j \in {0, 1, 3}}

\* C37: for every set of live windows and every start ensureNoOverlap comes to an
\* end, after at most two steps of +30/+30 for each live window; the state it
\* returns shares no x and no y with a live window; and with no window open it
\* returns the state it was given.
C37_NudgeLoopEnds ==
    \A start \in OverlapStarts :
      LET state == ensureNoOverlap(start, WINDOWS)
          steps == (state.x - start.x) \div Nudge
      IN  /\ steps \in 0..(2 * Len(WINDOWS))
          /\ state = [start EXCEPT !.x = @ + steps * Nudge, !.y = @ + steps * Nudge]
          /\ Len(WINDOWS) = 0 => state = start
          /\ Len(WINDOWS) > 0
               => \A k \in 1..Len(WINDOWS) :
                    /\ getBounds(WINDOWS[k]).x # state.x
                    /\ getBounds(WINDOWS[k]).y # state.y
          /\ \A n \in 0..(steps - 1) :
               \E k \in 1..Len(WINDOWS) :
                 \/ getBounds(WINDOWS[k]).x = start.x + n * Nudge
                 \/ getBounds(WINDOWS[k]).y = start.y + n * Nudge

\* three live windows stand in the way of the centered state twice each, and
\* ensureNoOverlap moves it six times
C37_Witness ==
    /\ Len(WINDOWS) = 3
    /\ ensureNoOverlap(UiCentered, WINDOWS) = UiAt(6, 6)

\* C38: an open() call that creates a window leaves the uiState (mode included) of
\* every record of openedWindows, of lastActiveWindow and of
\* lastPluginDevelopmentHostWindow as it was, also when the window gets a stored
\* fullscreen state as a normal one.
C38_CreationKeepsStoredUiState ==
    [][(/\ lastOpen'.calls = lastOpen.calls + 1
        /\ \E k \in 1..Len(lastOpen'.deliveries) : lastOpen'.deliveries[k].created)
         => /\ Len(windowsState'.openedWindows) = Len(windowsState.openedWindows)
            /\ \A k \in 1..Len(windowsState.openedWindows) :
                 windowsState'.openedWindows[k].uiState
                   = windowsState.openedWindows[k].uiState
            /\ windowsState'.lastActiveWindow.uiState
                 = windowsState.lastActiveWindow.uiState
            /\ windowsState'.lastPluginDevelopmentHostWindow.uiState
                 = windowsState.lastPluginDevelopmentHostWindow.uiState]_vars

\* ---------------------------------------------------------------------------
\* SpecTargets: open() calls for several folders and workspaces
\* ---------------------------------------------------------------------------

TargetsStartups ==
    { Startup("linux", NoBlob, NoBackups, FALSE),
      Startup("win32", NoBlob, NoBackups, FALSE) }

InitTargets == InitFrom(TargetsStartups)

\* two folders, a folder and a workspace, one folder; each again in a second call
TargetsCalls ==
    { CliOpen(<<"/a", "/b">>), CliOpen(<<"/a", "/w1.ws">>), CliOpen(<<"/a">>),
      ApiOpen("API", <<"/b", "/a">>, TRUE, FALSE), CliOpen(<<"/a", "/b", "/x">>) }

TargetsSettings == {SettingsDefault, SettingsAll}

NextTargets ==
    \/ OpenCall(TargetsCalls, TargetsCalls, TargetsSettings, MaxWindows)
    \/ \E req \in pending : UnloadDone(req, FALSE)
    \/ \E i \in WindowIds : Focus(i)

SpecTargets == InitTargets /\ [][NextTargets]_vars

\* the window with id i shows the folder or workspace target v, or the last open()
\* call handed it v to load
representedBy(i, v) ==
    LET w == getWindowById(i)
    IN  \/ IF HasWorkspace(v.workspace)
           THEN /\ HasWorkspace(openedWorkspace(w))
                /\ openedWorkspace(w).id = v.workspace.id
           ELSE /\ Truthy(openedFolderPath(w))
                /\ isEqual(openedFolderPath(w), v.folderPath, ~isLinux)
        \/ \E k \in 1..Len(lastOpen.deliveries) :
             /\ lastOpen.deliveries[k].win = i /\ lastOpen.deliveries[k].how = "load"
             /\ IF HasWorkspace(v.workspace)
                THEN lastOpen.deliveries[k].workspace.id = v.workspace.id
                ELSE /\ Truthy(lastOpen.deliveries[k].folderPath)
                     /\ isEqual(lastOpen.deliveries[k].folderPath, v.folderPath, ~isLinux)

\* C39: every folder and workspace target of an open() call is represented in the
\* list the call returns, by a window that shows it or that was handed it to load,
\* and no window is listed twice; also when several of the targets are open in
\* different windows already.
C39_EveryTargetReturned ==
    lastOpen.calls > 0
      => /\ \A v \in Range(folderTargets) \cup Range(workspaceTargets) :
              \E j \in 1..Len(lastOpen.used) : representedBy(lastOpen.used[j], v)
         /\ \A i, j \in 1..Len(lastOpen.used) :
              i # j => lastOpen.used[i] # lastOpen.used[j]

\* C40: the handlers delete an untitled workspace only when the user chose Don't Save
\* in the prompt shown for it, and then that workspace; no unload for a reload or a
\* quit, no unasked close or load, and no answer Cancel or Save (whether the save
\* dialog is cancelled, the save succeeds or fails) deletes one.
C40_DeletedOnlyOnDontSave ==
    /\ HasWorkspace(lastUnload.handled.deleted)
         => /\ lastUnload.handled.prompted
            /\ lastUnload.handled.res = "DONT_SAVE"
            /\ lastUnload.reason \in {"CLOSE", "LOAD"}
            /\ lastUnload.handled.deleted = lastUnload.workspace
            /\ isUntitledWorkspace(lastUnload.workspace)
    /\ (lastUnload.handled.prompted /\ lastUnload.handled.res = "DONT_SAVE")
         => lastUnload.handled.deleted = lastUnload.workspace

\* a window showing the untitled workspace was asked to load a folder, the user
\* chose Don't Save, and the workspace was deleted
C40_Witness ==
    /\ unloadsUntitled /\ lastUnload.reason = "LOAD"
    /\ lastUnload.handled.prompted /\ lastUnload.handled.res = "DONT_SAVE"
    /\ lastUnload.handled.deleted = lastUnload.workspace
    /\ ~lastUnload.handled.vetoed

====
